---- MODULE Spec2Model ----
(***************************************************************************)
(* A model of robo, a small HTTP router: the pattern compiler              *)
(* (compileMatcher and its helpers), the fragment matcher                  *)
(* (fragmentMatcher.match, fragment.matchPrefix) and the per-request       *)
(* dispatch queue of the Mux (Mux.add, Mux.ServeRoboHTTP, queue.serveNext, *)
(* Request.Next, Request.Param); and the matcher of pattern.go             *)
(* (compilePattern, pattern.match), which the fragment matcher replaced;   *)
(* and the trie-based Mux with ':name' segments (Mux.Add, Mux.ServeHTTP,   *)
(* node.add, node.search, split).                                          *)
(*                                                                         *)
(* Strings are sequences of code points.  Every character used is ASCII,   *)
(* so that a byte index and a rune index of the Go code coincide.  A Go    *)
(* index k (0-based) is position k+1 of the sequence.                      *)
(***************************************************************************)
EXTENDS Integers, Sequences, FiniteSets, TLC

(***************************************************************************)
(* Characters (ASCII code points).                                         *)
(***************************************************************************)
STAR == 42
HYPHEN == 45
SLASH == 47
LBRACK == 91
BSLASH == 92
RBRACK == 93
CHa == 97
CHb == 98
LBRACE == 123
RBRACE == 125

(***************************************************************************)
(* Bounds of the model.                                                    *)
(***************************************************************************)
MaxPatLen == 3
MaxPathLen == 3
MaxRoutes == 2
MaxNextCalls == 4
MaxSetLen == 3
MaxPairs == 4
MaxRunes == 4
MaxTwicePairs == 3
MaxAdds == 2
MaxConcNexts == 3

(***************************************************************************)
(* Fragment kinds (matching.go, const block).                              *)
(***************************************************************************)
literalFragment == 0
exclusiveFragment == 1
inclusiveFragment == 2
wildcardFragment == 3

(***************************************************************************)
(* Go slicing: s[lo:hi] and s[lo:] with 0-based bounds.                    *)
(***************************************************************************)
Slice(s, lo, hi) == SubSeq(s, lo + 1, hi)

SliceFrom(s, lo) == SubSeq(s, lo + 1, Len(s))

(***************************************************************************)
(* Results of the compile functions: an error (or a runtime panic) with no *)
(* value, or a value with err = "nil".                                     *)
(***************************************************************************)
CompileErrors ==
    { "errEmptyPattern", "errEmptyParameter", "errEmptyCharset",
      "errCharsetHasSlash", "errIllegalWildcard", "errImpossibleRange",
      "errUnexpectedHyphen", "errUnexpectedLBracket", "errUnexpectedRBracket",
      "errMissingRBrace", "errMissingRBracket" }

IndexPanic == "panic: index out of range"

Fail(e) == [err |-> e]

(***************************************************************************)
(* simplifyCharset: an insertion sort of the pairs by their low bound,     *)
(* then one forward pass that merges overlapping or adjacent pairs.        *)
(* The slice a holds the pairs flattened: a[2k], a[2k+1] in Go.            *)
(***************************************************************************)
SwapPairs(a, j) ==
    SubSeq(a, 1, j - 2) \o <<a[j + 1], a[j + 2], a[j - 1], a[j]>>
        \o SubSeq(a, j + 3, Len(a))

RECURSIVE sortInner(_, _)
sortInner(a, j) ==
    IF j <= 0 THEN a
    ELSE IF a[j + 1] > a[j - 1] \/ (a[j + 1] = a[j - 1] /\ a[j + 1] > a[j - 1])
         THEN a
         ELSE sortInner(SwapPairs(a, j), j - 2)

RECURSIVE sortPairs(_, _)
sortPairs(a, i) ==
    IF i >= Len(a) THEN a ELSE sortPairs(sortInner(a, i), i + 2)

\* (mutant) a merge keeps the high bound of the pair merged into.
RECURSIVE mergePairsKeepHigh(_, _, _)
mergePairsKeepHigh(a, r, w) ==
    IF r >= Len(a) THEN Slice(a, 0, w)
    ELSE LET merge ==
                 IF a[r + 1] <= a[w - 1]
                 THEN a[w - 1] <= a[r + 2] + 1
                 ELSE a[r + 1] - 1 <= a[w]
         IN  IF merge
             THEN LET a1 == IF a[r + 1] < a[w - 1]
                            THEN [a EXCEPT ![w - 1] = a[r + 1]] ELSE a
                  IN  mergePairsKeepHigh(a1, r + 2, w)
             ELSE mergePairsKeepHigh(
                      [a EXCEPT ![w + 1] = a[r + 1], ![w + 2] = a[r + 2]],
                      r + 2, w + 2)

\* (mutant) only pairs that overlap are merged.
RECURSIVE mergePairsOverlapOnly(_, _, _)
mergePairsOverlapOnly(a, r, w) ==
    IF r >= Len(a) THEN Slice(a, 0, w)
    ELSE LET merge ==
                 IF a[r + 1] <= a[w - 1]
                 THEN a[w - 1] <= a[r + 2]
                 ELSE a[r + 1] <= a[w]
         IN  IF merge
             THEN LET a1 == IF a[r + 1] < a[w - 1]
                            THEN [a EXCEPT ![w - 1] = a[r + 1]] ELSE a
                      a2 == IF a1[r + 2] > a1[w]
                            THEN [a1 EXCEPT ![w] = a1[r + 2]] ELSE a1
                  IN  mergePairsOverlapOnly(a2, r + 2, w)
             ELSE mergePairsOverlapOnly(
                      [a EXCEPT ![w + 1] = a[r + 1], ![w + 2] = a[r + 2]],
                      r + 2, w + 2)

RECURSIVE mergePairs(_, _, _)
mergePairs(a, r, w) ==
    IF r >= Len(a) THEN Slice(a, 0, w)
    ELSE LET merge ==
                 IF a[r + 1] <= a[w - 1]
                 THEN a[w - 1] <= a[r + 2] + 1
                 ELSE a[r + 1] - 1 <= a[w]
         IN  IF merge
             THEN LET a1 == IF a[r + 1] < a[w - 1]
                            THEN [a EXCEPT ![w - 1] = a[r + 1]] ELSE a
                      a2 == IF a1[r + 2] > a1[w]
                            THEN [a1 EXCEPT ![w] = a1[r + 2]] ELSE a1
                  IN  mergePairs(a2, r + 2, w)
             ELSE mergePairs([a EXCEPT ![w + 1] = a[r + 1], ![w + 2] = a[r + 2]],
                             r + 2, w + 2)

\* (mutant) the pairs are merged without being sorted first.
simplifyCharsetUnsorted(a) ==
    IF Len(a) = 0 THEN a ELSE mergePairs(a, 2, 2)

simplifyCharset(a) ==
    IF Len(a) = 0 THEN a ELSE mergePairs(sortPairs(a, 2), 2, 2)

(***************************************************************************)
(* compileCharsetFragment: pattern begins with '['.  The loop ranges over  *)
(* pattern[1:], i being the index into that slice; o collects the bounds,  *)
(* e is the escape flag.  The hyphen case indexes o[len(o)-2], which is    *)
(* out of range when o holds one pending lower bound.                      *)
(***************************************************************************)
\* (mutant) the bounds are not searched for '/'.
HasSlashNever(o) == FALSE

HasSlash(o) ==
    \E k \in 1..(Len(o) \div 2) : o[2 * k - 1] <= SLASH /\ SLASH <= o[2 * k]

\* (mutant) a backslash is a rune like any other.
RECURSIVE charsetLoopNoEscape(_, _, _, _)
charsetLoopNoEscape(pattern, i, o, e) ==
    IF i + 1 >= Len(pattern) THEN Fail("errMissingRBracket")
    ELSE LET r == pattern[i + 2] IN
         IF r = LBRACK THEN Fail("errUnexpectedLBracket")
         ELSE IF r = RBRACK THEN
             IF Len(o) % 2 # 0 THEN Fail("errUnexpectedRBracket")
             ELSE IF HasSlash(o) THEN Fail("errCharsetHasSlash")
             ELSE [err |-> "nil", chars |-> simplifyCharset(o), n |-> i + 2]
         ELSE IF r = HYPHEN THEN
             IF Len(o) = 0 THEN Fail("errUnexpectedHyphen")
             ELSE IF Len(o) = 1 THEN Fail(IndexPanic)
             ELSE IF o[Len(o)] # o[Len(o) - 1] THEN Fail("errUnexpectedHyphen")
             ELSE charsetLoopNoEscape(pattern, i + 1,
                                      SubSeq(o, 1, Len(o) - 1), e)
         ELSE IF Len(o) % 2 # 0 THEN
             IF r < o[Len(o)] THEN Fail("errImpossibleRange")
             ELSE charsetLoopNoEscape(pattern, i + 1, Append(o, r), FALSE)
         ELSE charsetLoopNoEscape(pattern, i + 1, o \o <<r, r>>, FALSE)

RECURSIVE charsetLoop(_, _, _, _)
charsetLoop(pattern, i, o, e) ==
    IF i + 1 >= Len(pattern) THEN Fail("errMissingRBracket")
    ELSE LET r == pattern[i + 2] IN
         IF ~e /\ r = BSLASH THEN charsetLoop(pattern, i + 1, o, TRUE)
         ELSE IF ~e /\ r = LBRACK THEN Fail("errUnexpectedLBracket")
         ELSE IF ~e /\ r = RBRACK THEN
             IF Len(o) % 2 # 0 THEN Fail("errUnexpectedRBracket")
             ELSE IF HasSlash(o) THEN Fail("errCharsetHasSlash")
             ELSE [err |-> "nil", chars |-> simplifyCharset(o), n |-> i + 2]
         ELSE IF ~e /\ r = HYPHEN THEN
             IF Len(o) = 0 THEN Fail("errUnexpectedHyphen")
             ELSE IF Len(o) = 1 THEN Fail(IndexPanic)
             ELSE IF o[Len(o)] # o[Len(o) - 1] THEN Fail("errUnexpectedHyphen")
             ELSE charsetLoop(pattern, i + 1, SubSeq(o, 1, Len(o) - 1), e)
         ELSE IF Len(o) % 2 # 0 THEN
             IF r < o[Len(o)] THEN Fail("errImpossibleRange")
             ELSE charsetLoop(pattern, i + 1, Append(o, r), FALSE)
         ELSE charsetLoop(pattern, i + 1, o \o <<r, r>>, FALSE)

compileCharsetFragment(pattern) ==
    IF Len(pattern) < 2 THEN Fail("errMissingRBracket")
    ELSE IF pattern[2] = RBRACK THEN Fail("errEmptyCharset")
    ELSE charsetLoop(pattern, 0, <<>>, FALSE)

(***************************************************************************)
(* A compiled fragment: kind t, text s (the literal, or the parameter's    *)
(* name), length n of a literal, runes r (exclusion set, or charset        *)
(* bounds).                                                                *)
(***************************************************************************)
Fragment(t, s, n, r) == [t |-> t, s |-> s, n |-> n, r |-> r]

Compiled(f, n) == [err |-> "nil", f |-> f, n |-> n]

\* (mutant) a backslash does not escape what follows it.
RECURSIVE literalLoopNoEscape(_, _, _)
literalLoopNoEscape(pattern, i, e) ==
    IF i >= Len(pattern) THEN i
    ELSE LET c == pattern[i + 1] IN
         IF c = STAR \/ c = LBRACE THEN i
         ELSE literalLoopNoEscape(pattern, i + 1, e)

RECURSIVE literalLoop(_, _, _)
literalLoop(pattern, i, e) ==
    IF i >= Len(pattern) THEN i
    ELSE LET c == pattern[i + 1] IN
         IF e THEN literalLoop(pattern, i + 1, FALSE)
         ELSE IF c = BSLASH THEN literalLoop(pattern, i + 1, TRUE)
         ELSE IF c = STAR \/ c = LBRACE THEN i
         ELSE literalLoop(pattern, i + 1, e)

compileLiteralFragment(pattern) ==
    LET i == literalLoop(pattern, 0, FALSE)
    IN  Compiled(Fragment(literalFragment, Slice(pattern, 0, i), i, <<>>), i)

\* (mutant) a '*' is accepted wherever it stands.
compileWildcardFragmentAnywhere(pattern) ==
    Compiled(Fragment(wildcardFragment, <<>>, 0, <<>>), 1)

compileWildcardFragment(pattern) ==
    IF pattern # <<STAR>> THEN Fail("errIllegalWildcard")
    ELSE Compiled(Fragment(wildcardFragment, <<>>, 0, <<>>), 1)

\* (mutant) what follows the charset block is not looked at.
RECURSIVE parameterLoopUnclosed(_, _, _)
parameterLoopUnclosed(pattern, i, e) ==
    IF i >= Len(pattern) THEN Fail("errMissingRBrace")
    ELSE LET c == pattern[i + 1] IN
         IF e THEN parameterLoopUnclosed(pattern, i + 1, FALSE)
         ELSE IF c = BSLASH THEN parameterLoopUnclosed(pattern, i + 1, TRUE)
         ELSE IF c = LBRACK THEN
             LET cs == compileCharsetFragment(SliceFrom(pattern, i)) IN
             IF cs.err # "nil" THEN Fail(cs.err)
             ELSE Compiled(Fragment(inclusiveFragment, Slice(pattern, 1, i),
                                    0, cs.chars),
                           i + cs.n + 1)
         ELSE IF c = RBRACE THEN
             IF i = 1 THEN Fail("errEmptyParameter")
             ELSE LET rest == SliceFrom(pattern, i + 1)
                      excl == IF Len(rest) > 0 /\ rest[1] # SLASH
                              THEN <<SLASH, rest[1]>> ELSE <<SLASH>>
                  IN  Compiled(Fragment(exclusiveFragment, Slice(pattern, 1, i),
                                        0, excl),
                               i + 1)
         ELSE parameterLoopUnclosed(pattern, i + 1, e)

\* (mutant) the rune after the closing brace is not added to the exclusion
\* set.
RECURSIVE parameterLoopSlashOnly(_, _, _)
parameterLoopSlashOnly(pattern, i, e) ==
    IF i >= Len(pattern) THEN Fail("errMissingRBrace")
    ELSE LET c == pattern[i + 1] IN
         IF e THEN parameterLoopSlashOnly(pattern, i + 1, FALSE)
         ELSE IF c = BSLASH THEN parameterLoopSlashOnly(pattern, i + 1, TRUE)
         ELSE IF c = LBRACK THEN
             LET cs == compileCharsetFragment(SliceFrom(pattern, i)) IN
             IF cs.err # "nil" THEN Fail(cs.err)
             ELSE IF i + cs.n = Len(pattern) \/ pattern[i + cs.n + 1] # RBRACE
                  THEN Fail("errMissingRBrace")
                  ELSE Compiled(Fragment(inclusiveFragment, Slice(pattern, 1, i),
                                         0, cs.chars),
                                i + cs.n + 1)
         ELSE IF c = RBRACE THEN
             IF i = 1 THEN Fail("errEmptyParameter")
             ELSE Compiled(Fragment(exclusiveFragment, Slice(pattern, 1, i),
                                    0, <<SLASH>>),
                           i + 1)
         ELSE parameterLoopSlashOnly(pattern, i + 1, e)

RECURSIVE parameterLoop(_, _, _)
parameterLoop(pattern, i, e) ==
    IF i >= Len(pattern) THEN Fail("errMissingRBrace")
    ELSE LET c == pattern[i + 1] IN
         IF e THEN parameterLoop(pattern, i + 1, FALSE)
         ELSE IF c = BSLASH THEN parameterLoop(pattern, i + 1, TRUE)
         ELSE IF c = LBRACK THEN
             LET cs == compileCharsetFragment(SliceFrom(pattern, i)) IN
             IF cs.err # "nil" THEN Fail(cs.err)
             ELSE IF i + cs.n = Len(pattern) \/ pattern[i + cs.n + 1] # RBRACE
                  THEN Fail("errMissingRBrace")
                  ELSE Compiled(Fragment(inclusiveFragment, Slice(pattern, 1, i),
                                         0, cs.chars),
                                i + cs.n + 1)
         ELSE IF c = RBRACE THEN
             IF i = 1 THEN Fail("errEmptyParameter")
             ELSE LET rest == SliceFrom(pattern, i + 1)
                      excl == IF Len(rest) > 0 /\ rest[1] # SLASH
                              THEN <<SLASH, rest[1]>> ELSE <<SLASH>>
                  IN  Compiled(Fragment(exclusiveFragment, Slice(pattern, 1, i),
                                        0, excl),
                               i + 1)
         ELSE parameterLoop(pattern, i + 1, e)

compileParameterFragment(pattern) == parameterLoop(pattern, 1, FALSE)

compileFragment(pattern) ==
    IF pattern[1] = STAR THEN compileWildcardFragment(pattern)
    ELSE IF pattern[1] = LBRACE THEN compileParameterFragment(pattern)
    ELSE compileLiteralFragment(pattern)

RECURSIVE compileLoop(_, _)
compileLoop(pattern, fs) ==
    IF pattern = <<>> THEN [err |-> "nil", fs |-> fs]
    ELSE LET c == compileFragment(pattern) IN
         IF c.err # "nil" THEN Fail(c.err)
         ELSE compileLoop(SliceFrom(pattern, c.n), Append(fs, c.f))

compileMatcher(pattern) ==
    IF pattern = <<>> THEN Fail("errEmptyPattern")
    ELSE compileLoop(pattern, <<>>)

(***************************************************************************)
(* fragment.matchPrefix: how many bytes of the input the fragment consumes *)
(* (-1 when it does not match) and the capture buffer, to which a          *)
(* parameter or wildcard appends its name and the captured text.           *)
(***************************************************************************)
\* (mutant) a length of zero is passed on.
nonZeroSame(n) == n

nonZero(n) == IF n = 0 THEN -1 ELSE n

InRunes(r, rs) == \E k \in 1..Len(rs) : rs[k] = r

InCharset(r, rs) ==
    \E k \in 1..(Len(rs) \div 2) : rs[2 * k - 1] <= r /\ r <= rs[2 * k]

\* Index of the first rune of the input that stops a parameter's scan, or
\* the input's length when no rune does.
\* (mutant) the scan stops after one rune.
RECURSIVE scanExclusiveOneRune(_, _, _)
scanExclusiveOneRune(f, pattern, i) ==
    IF i >= Len(pattern) THEN i
    ELSE IF InRunes(pattern[i + 1], f.r) THEN i
    ELSE i + 1

RECURSIVE scanExclusive(_, _, _)
scanExclusive(f, pattern, i) ==
    IF i >= Len(pattern) THEN i
    ELSE IF InRunes(pattern[i + 1], f.r) THEN i
    ELSE scanExclusive(f, pattern, i + 1)

RECURSIVE scanInclusive(_, _, _)
scanInclusive(f, pattern, i) ==
    IF i >= Len(pattern) THEN i
    ELSE IF ~InCharset(pattern[i + 1], f.r) THEN i
    ELSE scanInclusive(f, pattern, i + 1)

Consumed(n, buf) == [n |-> n, buf |-> buf]

\* (mutant) a wildcard left with nothing to consume does not match.
matchPrefixWildcardNonZero(f, pattern, buf) ==
    IF f.t = literalFragment THEN
        IF Len(pattern) < f.n \/ Slice(pattern, 0, f.n) # f.s
        THEN Consumed(-1, <<>>)
        ELSE Consumed(f.n, buf)
    ELSE IF f.t = exclusiveFragment THEN
        LET i == scanExclusive(f, pattern, 0)
        IN  Consumed(nonZero(i), buf \o <<f.s, Slice(pattern, 0, i)>>)
    ELSE IF f.t = inclusiveFragment THEN
        LET i == scanInclusive(f, pattern, 0)
        IN  Consumed(nonZero(i), buf \o <<f.s, Slice(pattern, 0, i)>>)
    ELSE Consumed(nonZero(Len(pattern)), buf \o <<<<STAR>>, pattern>>)

matchPrefix(f, pattern, buf) ==
    IF f.t = literalFragment THEN
        IF Len(pattern) < f.n \/ Slice(pattern, 0, f.n) # f.s
        THEN Consumed(-1, <<>>)
        ELSE Consumed(f.n, buf)
    ELSE IF f.t = exclusiveFragment THEN
        LET i == scanExclusive(f, pattern, 0)
        IN  Consumed(nonZero(i), buf \o <<f.s, Slice(pattern, 0, i)>>)
    ELSE IF f.t = inclusiveFragment THEN
        LET i == scanInclusive(f, pattern, 0)
        IN  Consumed(nonZero(i), buf \o <<f.s, Slice(pattern, 0, i)>>)
    ELSE Consumed(Len(pattern), buf \o <<<<STAR>>, pattern>>)

(***************************************************************************)
(* fragmentMatcher.match: the fragments consume the path from left to      *)
(* right; the match holds when none fails and nothing of the path is left. *)
(***************************************************************************)
NoMatch == [ok |-> FALSE, list |-> <<>>]

\* (mutant) the match holds once the fragments are consumed, whatever is left
\* of the path.
matchIterPrefix(fs, k, path, buf) ==
    IF k > Len(fs) THEN
        [done |-> TRUE, res |-> [ok |-> TRUE, list |-> buf]]
    ELSE LET m == matchPrefix(fs[k], path, buf) IN
         IF m.n < 0 THEN [done |-> TRUE, res |-> NoMatch]
         ELSE [done |-> FALSE, k |-> k + 1,
               path |-> SliceFrom(path, m.n), buf |-> m.buf]

\* (mutant) a failed match returns the captures made before it failed.
matchIterKeepCaptures(fs, k, path, buf) ==
    IF k > Len(fs) THEN
        [done |-> TRUE,
         res |-> IF path # <<>> THEN [ok |-> FALSE, list |-> buf]
                 ELSE [ok |-> TRUE, list |-> buf]]
    ELSE LET m == matchPrefix(fs[k], path, buf) IN
         IF m.n < 0 THEN [done |-> TRUE, res |-> [ok |-> FALSE, list |-> buf]]
         ELSE [done |-> FALSE, k |-> k + 1,
               path |-> SliceFrom(path, m.n), buf |-> m.buf]

\* One iteration of the loop over the fragments (k is the next fragment), or,
\* after the last fragment, the check that the whole path was consumed.
matchIter(fs, k, path, buf) ==
    IF k > Len(fs) THEN
        [done |-> TRUE,
         res |-> IF path # <<>> THEN NoMatch ELSE [ok |-> TRUE, list |-> buf]]
    ELSE LET m == matchPrefix(fs[k], path, buf) IN
         IF m.n < 0 THEN [done |-> TRUE, res |-> NoMatch]
         ELSE [done |-> FALSE, k |-> k + 1,
               path |-> SliceFrom(path, m.n), buf |-> m.buf]

RECURSIVE matchLoop(_, _, _, _)
matchLoop(fs, k, path, buf) ==
    LET it == matchIter(fs, k, path, buf)
    IN  IF it.done THEN it.res ELSE matchLoop(fs, it.k, it.path, it.buf)

match(fs, path, buf) == matchLoop(fs, 1, path, buf)

(***************************************************************************)
(* pattern.go, the matcher that compileMatcher replaced: compilePattern    *)
(* and its readers, fragment.match and pattern.match.  A fragment has no   *)
(* length field, and its kinds are the numbers 0 to 3, the values of the   *)
(* fragment kinds above.  readCharset and its simplifyCharset are, line    *)
(* for line, compileCharsetFragment and simplifyCharset.                   *)
(***************************************************************************)
PatternFragment(t, s, r) == [t |-> t, s |-> s, r |-> r]

readCharset(in) == compileCharsetFragment(in)

readLiteral(in) ==
    LET i == literalLoop(in, 0, FALSE)
    IN  Compiled(PatternFragment(literalFragment, Slice(in, 0, i), <<>>), i)

readWildcard(in) ==
    IF in # <<STAR>> THEN Fail("errIllegalWildcard")
    ELSE Compiled(PatternFragment(wildcardFragment, <<>>, <<>>), 1)

RECURSIVE readParameterLoop(_, _, _)
readParameterLoop(in, i, e) ==
    IF i >= Len(in) THEN Fail("errMissingRBrace")
    ELSE LET c == in[i + 1] IN
         IF e THEN readParameterLoop(in, i + 1, FALSE)
         ELSE IF c = BSLASH THEN readParameterLoop(in, i + 1, TRUE)
         ELSE IF c = LBRACK THEN
             LET cs == readCharset(SliceFrom(in, i)) IN
             IF cs.err # "nil" THEN Fail(cs.err)
             ELSE IF i + cs.n = Len(in) \/ in[i + cs.n + 1] # RBRACE
                  THEN Fail("errMissingRBrace")
                  ELSE Compiled(PatternFragment(inclusiveFragment,
                                                Slice(in, 1, i), cs.chars),
                                i + cs.n + 1)
         ELSE IF c = RBRACE THEN
             IF i = 1 THEN Fail("errEmptyParameter")
             ELSE LET rest == SliceFrom(in, i + 1)
                      excl == IF Len(rest) > 0 /\ rest[1] # SLASH
                              THEN <<rest[1], SLASH>> ELSE <<SLASH>>
                  IN  Compiled(PatternFragment(exclusiveFragment,
                                               Slice(in, 1, i), excl),
                               i + 1)
         ELSE readParameterLoop(in, i + 1, e)

readParameter(in) == readParameterLoop(in, 1, FALSE)

readFragment(in) ==
    IF in[1] = STAR THEN readWildcard(in)
    ELSE IF in[1] = LBRACE THEN readParameter(in)
    ELSE readLiteral(in)

RECURSIVE compilePatternLoop(_, _, _)
compilePatternLoop(in, i, o) ==
    IF i >= Len(in) THEN [err |-> "nil", fs |-> o]
    ELSE LET c == readFragment(SliceFrom(in, i)) IN
         IF c.err # "nil" THEN Fail(c.err)
         ELSE compilePatternLoop(in, i + c.n, Append(o, c.f))

compilePattern(in) ==
    IF in = <<>> THEN Fail("errEmptyPattern")
    ELSE compilePatternLoop(in, 0, <<>>)

\* fragment.match: the number of bytes consumed, 0 for a literal that does
\* not match.
fragmentMatch(f, in, buf) ==
    IF f.t = literalFragment THEN
        IF Len(in) < Len(f.s) THEN Consumed(0, <<>>)
        ELSE IF \E i \in 1..Len(f.s) : f.s[i] # in[i] THEN Consumed(0, <<>>)
        ELSE Consumed(Len(f.s), buf)
    ELSE IF f.t = exclusiveFragment THEN
        LET i == scanExclusive(f, in, 0)
        IN  Consumed(i, buf \o <<f.s, Slice(in, 0, i)>>)
    ELSE IF f.t = inclusiveFragment THEN
        LET i == scanInclusive(f, in, 0)
        IN  Consumed(i, buf \o <<f.s, Slice(in, 0, i)>>)
    ELSE Consumed(Len(in), buf \o <<<<STAR>>, in>>)

\* (mutant) a fragment that consumes nothing does not end the match.
patternMatchIterZero(p, k, in, buf) ==
    IF k > Len(p) THEN
        [done |-> TRUE,
         res |-> IF in # <<>> THEN NoMatch ELSE [ok |-> TRUE, list |-> buf]]
    ELSE IF in = <<>> THEN [done |-> TRUE, res |-> NoMatch]
    ELSE LET m == fragmentMatch(p[k], in, buf) IN
         [done |-> FALSE, k |-> k + 1,
          path |-> SliceFrom(in, m.n), buf |-> m.buf]

\* pattern.match: one iteration of the loop over the fragments (k is the next
\* fragment), or, after the last one, the check that nothing is left.
patternMatchIter(p, k, in, buf) ==
    IF k > Len(p) THEN
        [done |-> TRUE,
         res |-> IF in # <<>> THEN NoMatch ELSE [ok |-> TRUE, list |-> buf]]
    ELSE IF in = <<>> THEN [done |-> TRUE, res |-> NoMatch]
    ELSE LET m == fragmentMatch(p[k], in, buf) IN
         IF m.n = 0 THEN [done |-> TRUE, res |-> NoMatch]
         ELSE [done |-> FALSE, k |-> k + 1,
               path |-> SliceFrom(in, m.n), buf |-> m.buf]

RECURSIVE patternMatchLoop(_, _, _, _)
patternMatchLoop(p, k, in, buf) ==
    LET it == patternMatchIter(p, k, in, buf)
    IN  IF it.done THEN it.res ELSE patternMatchLoop(p, it.k, it.path, it.buf)

patternMatch(p, in, buf) == patternMatchLoop(p, 1, in, buf)

(***************************************************************************)
(* The trie-based Mux (Add with ':name' segments).  A node of the trie is  *)
(* named by the labels on the way to it from the root: Child(key) for an   *)
(* entry of n.c, WILD for n.w.  The trie is the function from the nodes    *)
(* that exist to their maps n.m of methods to entries.                     *)
(***************************************************************************)
COLON == 58

StatusNotFound == 404

StatusMethodNotAllowed == 405

StatusOK == 200

WILD == [w |-> TRUE, key |-> <<>>]

Child(key) == [w |-> FALSE, key |-> key]

newNode == <<>>

NewMux == (<<>> :> newNode)

entry(p, h) == [p |-> p, h |-> h]

\* strings.Split(s, "/"): cur is the piece being read.
RECURSIVE stringsSplit(_, _)
stringsSplit(s, cur) ==
    IF s = <<>> THEN <<cur>>
    ELSE IF Head(s) = SLASH THEN <<cur>> \o stringsSplit(Tail(s), <<>>)
    ELSE stringsSplit(Tail(s), Append(cur, Head(s)))

\* The loop of split: out holds path[:j].
RECURSIVE splitLoop(_, _, _)
splitLoop(path, i, out) ==
    IF i >= Len(path) THEN out
    ELSE IF path[i + 1] # <<>> \/ i = Len(path) - 1
         THEN splitLoop(path, i + 1, Append(out, path[i + 1]))
         ELSE splitLoop(path, i + 1, out)

split(s) == splitLoop(stringsSplit(s, <<>>), 0, <<>>)

toUpperByte(c) == IF c \in 97..122 THEN c - 32 ELSE c

toUpper(s) == [k \in 1..Len(s) |-> toUpperByte(s[k])]

\* Byte-wise order of strings, as sort.Strings compares them.
RECURSIVE StrLess(_, _)
StrLess(x, y) ==
    IF y = <<>> THEN FALSE
    ELSE IF x = <<>> THEN TRUE
    ELSE IF x[1] # y[1] THEN x[1] < y[1]
    ELSE StrLess(Tail(x), Tail(y))

\* sort.Strings on the keys of a map, whatever order range yields them in.
RECURSIVE sortStrings(_)
sortStrings(S) ==
    IF S = {} THEN <<>>
    ELSE LET m == CHOOSE x \in S : \A y \in S \ {x} : StrLess(x, y)
         IN  <<m>> \o sortStrings(S \ {m})

RECURSIVE stringsJoin(_, _)
stringsJoin(a, sep) ==
    IF Len(a) = 0 THEN <<>>
    ELSE IF Len(a) = 1 THEN a[1]
    ELSE a[1] \o sep \o stringsJoin(Tail(a), sep)

\* node.add: the trie after the call, and whether it panicked on ":".
RECURSIVE nodeAdd(_, _, _, _, _)
nodeAdd(t, nid, method, path, ent) ==
    IF Len(path) = 0
    THEN [t |-> (nid :> ((method :> ent) @@ t[nid])) @@ t, panic |-> FALSE]
    ELSE LET key == path[1] IN
         IF Len(key) > 0 /\ key[1] = COLON
         THEN IF Len(key) = 1 THEN [t |-> t, panic |-> TRUE]
              ELSE LET wid == Append(nid, WILD)
                       t1 == IF wid \in DOMAIN t THEN t
                             ELSE (wid :> newNode) @@ t
                   IN  nodeAdd(t1, wid, method, Tail(path),
                               entry(Append(ent.p, key), ent.h))
         ELSE LET cid == Append(nid, Child(key))
                  t1 == IF cid \in DOMAIN t THEN t
                        ELSE (cid :> newNode) @@ t
              IN  nodeAdd(t1, cid, method, Tail(path),
                          entry(Append(ent.p, <<>>), ent.h))

\* (mutant) the wildcard child is tried only when no child has the fragment.
RECURSIVE nodeSearchFirstOnly(_, _, _, _)
nodeSearchFirstOnly(t, nid, path, out) ==
    IF Len(path) = 0 THEN out @@ t[nid]
    ELSE LET frag == path[1]
             cid == Append(nid, Child(frag))
             wid == Append(nid, WILD)
         IN  IF cid \in DOMAIN t
             THEN nodeSearchFirstOnly(t, cid, Tail(path), out)
             ELSE IF frag # <<>> /\ wid \in DOMAIN t
                  THEN nodeSearchFirstOnly(t, wid, Tail(path), out)
                  ELSE out

\* node.search: out gains the entries of every node the path leads to, the
\* entry already there for a method being kept.
RECURSIVE nodeSearch(_, _, _, _)
nodeSearch(t, nid, path, out) ==
    IF Len(path) = 0 THEN out @@ t[nid]
    ELSE LET frag == path[1]
             cid == Append(nid, Child(frag))
             wid == Append(nid, WILD)
             out1 == IF cid \in DOMAIN t
                     THEN nodeSearch(t, cid, Tail(path), out)
                     ELSE out
         IN  IF frag # <<>> /\ wid \in DOMAIN t
             THEN nodeSearch(t, wid, Tail(path), out1)
             ELSE out1

\* Mux.Add
muxAdd(t, method, pattern, handler) ==
    nodeAdd(t, <<>>, toUpper(method), split(pattern), entry(<<>>, handler))

\* The loop filling params: params.Set replaces what the key had.
RECURSIVE paramsSet(_, _, _, _)
paramsSet(pattern, ent, i, params) ==
    IF i >= Len(pattern) THEN params
    ELSE LET frag == ent.p[i + 1] IN
         IF frag # <<>>
         THEN paramsSet(pattern, ent, i + 1, (frag :> pattern[i + 1]) @@ params)
         ELSE paramsSet(pattern, ent, i + 1, params)

\* url.QueryEscape on strings of letters and ':'.
RECURSIVE queryEscape(_)
queryEscape(s) ==
    IF s = <<>> THEN <<>>
    ELSE (IF Head(s) = COLON THEN <<37, 51, 65>> ELSE <<Head(s)>>)
             \o queryEscape(Tail(s))

\* url.Values.Encode: key=value in the order of the sorted keys, joined by '&'.
encode(params) ==
    LET keys == sortStrings(DOMAIN params)
    IN  stringsJoin([k \in 1..Len(keys) |->
                        queryEscape(keys[k]) \o <<61>>
                            \o queryEscape(params[keys[k]])],
                    <<38>>)

TrieResponse(code, allow, body, handler, query) ==
    [code |-> code, allow |-> allow, body |-> body, handler |-> handler,
     query |-> query]

\* Mux.ServeHTTP: what the client gets, the handler that ran and the
\* RawQuery it saw.  allow is <<>> when the header is not set.
serveHTTP(t, r) ==
    LET pattern == split(r.path)
        methods == nodeSearch(t, <<>>, pattern, <<>>)
    IN  IF DOMAIN methods = {}
        THEN TrieResponse(StatusNotFound, <<>>, <<52, 48, 52, 10>>, "none",
                          r.query)
        ELSE IF r.method \notin DOMAIN methods
        THEN TrieResponse(StatusMethodNotAllowed,
                          stringsJoin(sortStrings(DOMAIN methods), <<44, 32>>),
                          <<52, 48, 53, 10>>, "none", r.query)
        ELSE LET ent == methods[r.method]
                 params == paramsSet(pattern, ent, 0, <<>>)
                 query == IF r.query # <<>>
                          THEN encode(params) \o <<38>> \o r.query
                          ELSE encode(params)
             IN  TrieResponse(StatusOK, <<>>, <<>>, ent.h, query)

(***************************************************************************)
(* The Mux.  A handler value is what Mux.add stores: the kind of wrapper   *)
(* it was given and an identity, <<i, k>> for the k-th handler of the i-th *)
(* registration.  Handlers wrapped as httpHandler receive the plain        *)
(* http.Request and so cannot reach Request.Next.                          *)
(***************************************************************************)
VARIABLES
    routes,   \* Mux.routes
    fatal,    \* "nil", or the value the process panicked with
    hr,       \* the request being served: method and URL path
    queue,    \* the queue of the request: handlers, params, routes
    stack,    \* the handler invocations in progress (indices into calls)
    calls,    \* every handler invocation of the request, in order
    w,        \* what the dispatcher wrote to the ResponseWriter
    pc        \* "idle", "serving" (a handler is running) or "returned"

VARIABLES
    mPattern, \* the pattern string handed to compileMatcher
    mMatcher, \* its result
    mPath,    \* the path handed to match
    mK,       \* match: the next fragment
    mRest,    \* match: what is left of the path
    mBuf,     \* match: the captures so far
    mStage    \* "input", "error", "compiled", "matching", "matched", "failed"

VARIABLES
    cIn,      \* the slice of bounds handed to simplifyCharset
    cOut,     \* the slice it returned
    cStage    \* "idle", "input" or "done"

muxVars == <<routes, fatal, hr, queue, stack, calls, w, pc>>

matchVars == <<mPattern, mMatcher, mPath, mK, mRest, mBuf, mStage>>

simplifyVars == <<cIn, cOut, cStage>>

VARIABLES
    trie,     \* the trie-based Mux: its nodes and their entries
    tLog,     \* the calls of Add that returned, in order
    tReq,     \* the request handed to its ServeHTTP
    tResp,    \* what ServeHTTP made of it
    tStage    \* "idle", "served" (tResp answers tReq) or "panic"

trieVars == <<trie, tLog, tReq, tResp, tStage>>

VARIABLES
    xQueues,  \* the queues of the requests in progress, by address
    xReqs     \* the requests dispatched side by side: for each its method
              \* and path, the address of its queue, and its stack, calls,
              \* response and position as for a single request

concVars == <<xQueues, xReqs>>

vars == <<routes, fatal, hr, queue, stack, calls, w, pc,
          mPattern, mMatcher, mPath, mK, mRest, mBuf, mStage,
          cIn, cOut, cStage,
          trie, tLog, tReq, tResp, tStage,
          xQueues, xReqs>>

\* The shapes a caller can hand to Any/Get/Post/...: the four the type switch
\* of Mux.add accepts, and one it does not.
HandlerShapes == {"Handler", "roboFunc", "http.Handler", "httpFunc", "int"}

\* Mux.add's type switch: the stored wrapper, or "invalid".
cleanKind(shape) ==
    IF shape = "Handler" THEN "Handler"
    ELSE IF shape = "roboFunc" THEN "HandlerFunc"
    ELSE IF shape = "http.Handler" \/ shape = "httpFunc" THEN "httpHandler"
    ELSE "invalid"

newRoute(method, pat, handlers) ==
    LET c == compileMatcher(pat)
    IN  IF c.err # "nil" THEN [fatal |-> c.err]
        ELSE [fatal |-> "nil",
              route |-> [method |-> method, matcher |-> c.fs,
                         handlers |-> handlers]]

\* (mutant) the new route goes to the front of the table.
addPrepend(rs, method, pat, handlers) ==
    IF Len(handlers) = 0 THEN [routes |-> rs, fatal |-> "no handlers provided"]
    ELSE IF \E j \in 1..Len(handlers) : cleanKind(handlers[j]) = "invalid"
    THEN [routes |-> rs, fatal |-> "not a valid handler"]
    ELSE LET clean == [j \in 1..Len(handlers) |->
                          [kind |-> cleanKind(handlers[j]),
                           id |-> <<Len(rs) + 1, j>>]]
             nr == newRoute(method, pat, clean)
         IN  IF nr.fatal # "nil" THEN [routes |-> rs, fatal |-> nr.fatal]
             ELSE [routes |-> <<nr.route>> \o rs, fatal |-> "nil"]

\* (mutant) the shapes of the handlers are not validated.
addAnyShape(rs, method, pat, handlers) ==
    IF Len(handlers) = 0 THEN [routes |-> rs, fatal |-> "no handlers provided"]
    ELSE LET clean == [j \in 1..Len(handlers) |->
                          [kind |-> cleanKind(handlers[j]),
                           id |-> <<Len(rs) + 1, j>>]]
             nr == newRoute(method, pat, clean)
         IN  IF nr.fatal # "nil" THEN [routes |-> rs, fatal |-> nr.fatal]
             ELSE [routes |-> Append(rs, nr.route), fatal |-> "nil"]

\* Mux.add: the routes after the call and the panic value, "nil" if none.
add(rs, method, pat, handlers) ==
    IF Len(handlers) = 0 THEN [routes |-> rs, fatal |-> "no handlers provided"]
    ELSE IF \E j \in 1..Len(handlers) : cleanKind(handlers[j]) = "invalid"
    THEN [routes |-> rs, fatal |-> "not a valid handler"]
    ELSE LET clean == [j \in 1..Len(handlers) |->
                          [kind |-> cleanKind(handlers[j]),
                           id |-> <<Len(rs) + 1, j>>]]
             nr == newRoute(method, pat, clean)
         IN  IF nr.fatal # "nil" THEN [routes |-> rs, fatal |-> nr.fatal]
             ELSE [routes |-> Append(rs, nr.route), fatal |-> "nil"]

(***************************************************************************)
(* route.check and Request.Param.  A parameter map is a function from the  *)
(* captured names to their values; emptyParams and a nil map are the empty *)
(* function.                                                               *)
(***************************************************************************)
emptyParams == <<>>

\* (mutant) the first capture of a name is kept.
RECURSIVE paramsLoopFirstWins(_, _, _)
paramsLoopFirstWins(list, i, params) ==
    IF i >= Len(list) THEN params
    ELSE paramsLoopFirstWins(list, i + 2,
                             params @@ (list[i + 1] :> list[i + 2]))

RECURSIVE paramsLoop(_, _, _)
paramsLoop(list, i, params) ==
    IF i >= Len(list) THEN params
    ELSE paramsLoop(list, i + 2, (list[i + 1] :> list[i + 2]) @@ params)

check(r, method, path) ==
    IF method # r.method /\ r.method # "" THEN [ok |-> FALSE, params |-> <<>>]
    ELSE LET m == match(r.matcher, path, <<>>) IN
         IF ~m.ok THEN [ok |-> FALSE, params |-> <<>>]
         ELSE IF Len(m.list) = 0 THEN [ok |-> TRUE, params |-> emptyParams]
         ELSE [ok |-> TRUE, params |-> paramsLoop(m.list, 0, <<>>)]

Param(params, name) ==
    IF name \in DOMAIN params THEN params[name] ELSE <<>>

(***************************************************************************)
(* queue.serveNext up to the call of the handler it picks: the queue after *)
(* it, the handler invoked with the parameters of its Request (invoke is   *)
(* empty when none is), and whether the 404 message was sent.              *)
(***************************************************************************)
\* (mutant) the scan prefers the route registered last.
RECURSIVE nextRouteLast(_, _)
nextRouteLast(rs, req) ==
    IF Len(rs) = 0 THEN [found |-> FALSE, routes |-> rs]
    ELSE LET c == check(rs[Len(rs)], req.method, req.path) IN
         IF c.ok
         THEN [found |-> TRUE, r |-> rs[Len(rs)], params |-> c.params,
               routes |-> SubSeq(rs, 1, Len(rs) - 1)]
         ELSE nextRouteLast(SubSeq(rs, 1, Len(rs) - 1), req)

\* (mutant) the matching route stays at the head of the remaining routes.
RECURSIVE nextRouteNoAdvance(_, _)
nextRouteNoAdvance(rs, req) ==
    IF Len(rs) = 0 THEN [found |-> FALSE, routes |-> rs]
    ELSE LET c == check(Head(rs), req.method, req.path) IN
         IF c.ok
         THEN [found |-> TRUE, r |-> Head(rs), params |-> c.params,
               routes |-> rs]
         ELSE nextRouteNoAdvance(Tail(rs), req)

\* (mutant) the routes after the matching one are dropped.
RECURSIVE nextRouteDropRest(_, _)
nextRouteDropRest(rs, req) ==
    IF Len(rs) = 0 THEN [found |-> FALSE, routes |-> rs]
    ELSE LET c == check(Head(rs), req.method, req.path) IN
         IF c.ok
         THEN [found |-> TRUE, r |-> Head(rs), params |-> c.params,
               routes |-> <<>>]
         ELSE nextRouteDropRest(Tail(rs), req)

RECURSIVE nextRoute(_, _)
nextRoute(rs, req) ==
    IF Len(rs) = 0 THEN [found |-> FALSE, routes |-> rs]
    ELSE LET c == check(Head(rs), req.method, req.path) IN
         IF c.ok
         THEN [found |-> TRUE, r |-> Head(rs), params |-> c.params,
               routes |-> Tail(rs)]
         ELSE nextRoute(Tail(rs), req)

\* (mutant) the handler taken from the current route stays in the queue.
serveNextNoPop(q, req) ==
    IF Len(q.handlers) > 0
    THEN [q |-> q,
          invoke |-> <<[h |-> Head(q.handlers), params |-> q.params]>>,
          notFound |-> FALSE]
    ELSE LET s == nextRoute(q.routes, req) IN
         IF s.found
         THEN [q |-> [handlers |-> Tail(s.r.handlers), params |-> s.params,
                      routes |-> s.routes],
               invoke |-> <<[h |-> Head(s.r.handlers), params |-> s.params]>>,
               notFound |-> FALSE]
         ELSE [q |-> [q EXCEPT !.routes = s.routes],
               invoke |-> <<>>,
               notFound |-> TRUE]

\* (mutant) the queue keeps the whole handler list of the route it adopts.
serveNextKeepFirst(q, req) ==
    IF Len(q.handlers) > 0
    THEN [q |-> [q EXCEPT !.handlers = Tail(q.handlers)],
          invoke |-> <<[h |-> Head(q.handlers), params |-> q.params]>>,
          notFound |-> FALSE]
    ELSE LET s == nextRoute(q.routes, req) IN
         IF s.found
         THEN [q |-> [handlers |-> s.r.handlers, params |-> s.params,
                      routes |-> s.routes],
               invoke |-> <<[h |-> Head(s.r.handlers), params |-> s.params]>>,
               notFound |-> FALSE]
         ELSE [q |-> [q EXCEPT !.routes = s.routes],
               invoke |-> <<>>,
               notFound |-> TRUE]

\* (mutant) the return after the call of the adopted route's first handler is
\* missing: the 404 message follows.
serveNextFallThrough(q, req) ==
    IF Len(q.handlers) > 0
    THEN [q |-> [q EXCEPT !.handlers = Tail(q.handlers)],
          invoke |-> <<[h |-> Head(q.handlers), params |-> q.params]>>,
          notFound |-> FALSE]
    ELSE LET s == nextRoute(q.routes, req) IN
         IF s.found
         THEN [q |-> [handlers |-> Tail(s.r.handlers), params |-> s.params,
                      routes |-> s.routes],
               invoke |-> <<[h |-> Head(s.r.handlers), params |-> s.params]>>,
               notFound |-> TRUE]
         ELSE [q |-> [q EXCEPT !.routes = s.routes],
               invoke |-> <<>>,
               notFound |-> TRUE]

\* (mutant) the queue adopts the handlers of a route but keeps the parameters
\* it had.
serveNextStaleParams(q, req) ==
    IF Len(q.handlers) > 0
    THEN [q |-> [q EXCEPT !.handlers = Tail(q.handlers)],
          invoke |-> <<[h |-> Head(q.handlers), params |-> q.params]>>,
          notFound |-> FALSE]
    ELSE LET s == nextRoute(q.routes, req) IN
         IF s.found
         THEN [q |-> [handlers |-> Tail(s.r.handlers), params |-> q.params,
                      routes |-> s.routes],
               invoke |-> <<[h |-> Head(s.r.handlers), params |-> q.params]>>,
               notFound |-> FALSE]
         ELSE [q |-> [q EXCEPT !.routes = s.routes],
               invoke |-> <<>>,
               notFound |-> TRUE]

serveNext(q, req) ==
    IF Len(q.handlers) > 0
    THEN [q |-> [q EXCEPT !.handlers = Tail(q.handlers)],
          invoke |-> <<[h |-> Head(q.handlers), params |-> q.params]>>,
          notFound |-> FALSE]
    ELSE LET s == nextRoute(q.routes, req) IN
         IF s.found
         THEN [q |-> [handlers |-> Tail(s.r.handlers), params |-> s.params,
                      routes |-> s.routes],
               invoke |-> <<[h |-> Head(s.r.handlers), params |-> s.params]>>,
               notFound |-> FALSE]
         ELSE [q |-> [q EXCEPT !.routes = s.routes],
               invoke |-> <<>>,
               notFound |-> TRUE]

\* http.Error(w, "Not found.\n", 404): the first status written stands, the
\* body is appended to.
NotFoundBody == "Not found.\n"

\* (mutant) the body is written without the status.
httpErrorNoStatus(rw, body, code) ==
    [status |-> rw.status, body |-> Append(rw.body, body)]

httpError(rw, body, code) ==
    [status |-> IF rw.status = 0 THEN code ELSE rw.status,
     body |-> Append(rw.body, body)]

\* (mutant) the queue is kept in the Mux, one for all requests.
newQueueAddrShared(i) == 1

\* The address of the queue of the i-th call of ServeRoboHTTP: its local q,
\* a variable of that call alone.
newQueueAddr(i) == i

(***************************************************************************)
(* The inputs of the Mux: methods, patterns, handler lists and requests.   *)
(***************************************************************************)
Methods == {"", "GET"}

RequestMethods == {"GET", "POST"}

PatA == <<SLASH, CHa>>                                      \* "/a"
PatTwice == <<SLASH, LBRACE, CHa, RBRACE, HYPHEN, LBRACE, CHa, RBRACE>>
                                                            \* "/{a}-{a}"
PatWild == <<SLASH, STAR>>                                  \* "/*"
PatOpen == <<SLASH, LBRACE, CHa>>                           \* "/{a"

MuxPatterns == {PatA, PatTwice, PatWild, PatOpen}

HandlerLists ==
    { <<>>,
      <<"httpFunc">>,
      <<"Handler", "roboFunc">>,
      <<"http.Handler", "int">> }

MuxPaths ==
    { <<SLASH, CHa>>, <<SLASH, CHb>>, <<SLASH, CHa, HYPHEN, CHb>> }

NoRequest == [method |-> "", path |-> <<>>]

NewQueue(rs) == [handlers |-> <<>>, params |-> <<>>, routes |-> rs]

NoResponse == [status |-> 0, body |-> <<>>]

MatchIdle ==
    /\ mPattern = <<>>
    /\ mMatcher = Fail("errEmptyPattern")
    /\ mPath = <<>>
    /\ mK = 0
    /\ mRest = <<>>
    /\ mBuf = <<>>
    /\ mStage = "idle"

MuxIdle ==
    /\ routes = <<>>
    /\ fatal = "nil"
    /\ hr = NoRequest
    /\ queue = NewQueue(<<>>)
    /\ stack = <<>>
    /\ calls = <<>>
    /\ w = NoResponse
    /\ pc = "idle"

SimplifyIdle ==
    /\ cIn = <<>>
    /\ cOut = <<>>
    /\ cStage = "idle"

\* The trie-based Mux as NewMux returns it, no request served.
NoTrieRequest == [method |-> <<>>, path |-> <<>>, query |-> <<>>]

TrieIdle ==
    /\ trie = NewMux
    /\ tLog = <<>>
    /\ tReq = NoTrieRequest
    /\ tResp = TrieResponse(0, <<>>, <<>>, "none", <<>>)
    /\ tStage = "idle"

\* The requests a server has in progress at a time, none begun.
ReqIds == {1, 2}

IdleRequest ==
    [hr |-> NoRequest, q |-> 0, stack |-> <<>>, calls |-> <<>>,
     w |-> NoResponse, pc |-> "idle"]

ConcIdle ==
    /\ xQueues = <<>>
    /\ xReqs = [i \in ReqIds |-> IdleRequest]

Init == MuxIdle /\ MatchIdle /\ SimplifyIdle /\ TrieIdle /\ ConcIdle

(***************************************************************************)
(* Any/Get/Post/... -> Mux.add.  Registration happens while no request is  *)
(* being dispatched; the locals of an earlier dispatch are gone.           *)
(***************************************************************************)
Register(method, pat, handlers) ==
    /\ fatal = "nil"
    /\ pc # "serving"
    /\ Len(routes) < MaxRoutes
    /\ \E a \in {add(routes, method, pat, handlers)} :
           /\ routes' = a.routes
           /\ fatal' = a.fatal
    /\ hr' = NoRequest
    /\ queue' = NewQueue(<<>>)
    /\ stack' = <<>>
    /\ calls' = <<>>
    /\ w' = NoResponse
    /\ pc' = "idle"
    /\ UNCHANGED matchVars
    /\ UNCHANGED <<simplifyVars, trieVars, concVars>>

\* The effect of one serveNext on the state of the request: the queue, the
\* invocation it starts (pushed on the stack) or the 404 it sends.
Dispatch(q, req, st, cs, rw) ==
    \E s \in {serveNext(q, req)} :
        /\ queue' = s.q
        /\ IF Len(s.invoke) > 0
           THEN /\ calls' = Append(cs, [h |-> s.invoke[1].h,
                                        params |-> s.invoke[1].params,
                                        nexts |-> 0, returned |-> FALSE])
                /\ stack' = Append(st, Len(cs) + 1)
           ELSE /\ calls' = cs
                /\ stack' = st
        /\ w' = IF s.notFound THEN httpError(rw, NotFoundBody, StatusNotFound)
                ELSE rw
        /\ pc' = IF Len(s.invoke) > 0 \/ Len(st) > 0 THEN "serving"
                 ELSE "returned"

\* Mux.ServeHTTP -> Mux.ServeRoboHTTP: a fresh queue over the whole table,
\* and the first serveNext.
ServeHTTP(method, path) ==
    /\ fatal = "nil"
    /\ pc # "serving"
    /\ hr' = [method |-> method, path |-> path]
    /\ Dispatch(NewQueue(routes), [method |-> method, path |-> path],
                <<>>, <<>>, NoResponse)
    /\ UNCHANGED <<routes, fatal>>
    /\ UNCHANGED matchVars
    /\ UNCHANGED <<simplifyVars, trieVars, concVars>>

\* The number of times the handlers of the request have called Next.
RECURSIVE SumNexts(_, _)
SumNexts(cs, i) == IF i > Len(cs) THEN 0 ELSE cs[i].nexts + SumNexts(cs, i + 1)

NextCalls(cs) == SumNexts(cs, 1)

\* Request.Next, called by the handler that is running (the top of the stack);
\* the model follows a request for up to MaxNextCalls such calls.
Next_ ==
    /\ pc = "serving"
    /\ Len(stack) > 0
    /\ LET c == stack[Len(stack)] IN
       /\ calls[c].h.kind # "httpHandler"
       /\ NextCalls(calls) < MaxNextCalls
       /\ Dispatch(queue, hr, stack,
                   [calls EXCEPT ![c].nexts = @ + 1], w)
    /\ UNCHANGED <<routes, fatal, hr>>
    /\ UNCHANGED matchVars
    /\ UNCHANGED <<simplifyVars, trieVars, concVars>>

\* The running handler returns, to the handler whose Next invoked it or, from
\* the first one, to the caller of ServeHTTP.
Return ==
    /\ pc = "serving"
    /\ Len(stack) > 0
    /\ calls' = [calls EXCEPT ![stack[Len(stack)]].returned = TRUE]
    /\ stack' = SubSeq(stack, 1, Len(stack) - 1)
    /\ pc' = IF Len(stack) = 1 THEN "returned" ELSE "serving"
    /\ UNCHANGED <<routes, fatal, hr, queue, w>>
    /\ UNCHANGED matchVars
    /\ UNCHANGED <<simplifyVars, trieVars, concVars>>

Next ==
    \/ \E method \in Methods, pat \in MuxPatterns, handlers \in HandlerLists :
           Register(method, pat, handlers)
    \/ \E method \in RequestMethods, path \in MuxPaths : ServeHTTP(method, path)
    \/ Next_
    \/ Return

Spec == Init /\ [][Next]_vars

\* The Mux with handlers that return: a handler that is running calls Next
\* some more times (MaxNextCalls bounds the calls of a request) and then
\* returns.
SpecLive == Init /\ [][Next]_vars /\ WF_vars(Return)

(***************************************************************************)
(* Requests dispatched side by side over a table built beforehand, each    *)
(* by its own call of Mux.ServeHTTP: the steps of the requests (the start, *)
(* a call of Next, the return of a handler) interleave in any order.  The  *)
(* queue of a call is the local q of its ServeRoboHTTP; the table and the  *)
(* map emptyParams are shared and only read.                               *)
(***************************************************************************)
\* The table after the registrations regs, made one after the other.
RECURSIVE Built(_, _)
Built(rs, regs) ==
    IF Len(regs) = 0 THEN rs
    ELSE Built(add(rs, regs[1][1], regs[1][2], regs[1][3]).routes, Tail(regs))

ConcTables ==
    { Built(<<>>, << <<"GET", PatTwice, <<"Handler", "roboFunc">> >>,
                    <<"", PatWild, <<"Handler", "roboFunc">> >> >>),
      Built(<<>>, << <<"", PatA, <<"roboFunc">> >>,
                    <<"GET", PatWild, <<"Handler", "httpFunc">> >> >>) }

InitConc ==
    /\ routes \in ConcTables
    /\ fatal = "nil"
    /\ hr = NoRequest
    /\ queue = NewQueue(<<>>)
    /\ stack = <<>>
    /\ calls = <<>>
    /\ w = NoResponse
    /\ pc = "idle"
    /\ MatchIdle
    /\ SimplifyIdle
    /\ TrieIdle
    /\ ConcIdle

\* The effect of one serveNext of request i, on the queue at address a.
ConcDispatch(i, a, q, r) ==
    \E s \in {serveNext(q, r.hr)} :
        /\ xQueues' = (a :> s.q) @@ xQueues
        /\ xReqs' =
               [j \in ReqIds |->
                   IF j # i THEN xReqs[j]
                   ELSE [hr |-> r.hr,
                         q |-> a,
                         stack |-> IF Len(s.invoke) > 0
                                   THEN Append(r.stack, Len(r.calls) + 1)
                                   ELSE r.stack,
                         calls |-> IF Len(s.invoke) > 0
                                   THEN Append(r.calls,
                                               [h |-> s.invoke[1].h,
                                                params |-> s.invoke[1].params,
                                                nexts |-> 0,
                                                returned |-> FALSE])
                                   ELSE r.calls,
                         w |-> IF s.notFound
                               THEN httpError(r.w, NotFoundBody, StatusNotFound)
                               ELSE r.w,
                         pc |-> IF Len(s.invoke) > 0 \/ Len(r.stack) > 0
                                THEN "serving" ELSE "returned"]]

\* Mux.ServeHTTP -> Mux.ServeRoboHTTP for request i.
ConcServeHTTP(i, method, path) ==
    /\ xReqs[i].pc = "idle"
    /\ ConcDispatch(i, newQueueAddr(i), NewQueue(routes),
                    [IdleRequest EXCEPT !.hr = [method |-> method,
                                                path |-> path]])
    /\ UNCHANGED <<muxVars, matchVars, simplifyVars, trieVars>>

\* Request.Next, called by the handler of request i that is running; the
\* model follows a request for up to MaxConcNexts such calls.
ConcNext(i) ==
    /\ xReqs[i].pc = "serving"
    /\ Len(xReqs[i].stack) > 0
    /\ LET r == xReqs[i]
           c == r.stack[Len(r.stack)]
       IN  /\ r.calls[c].h.kind # "httpHandler"
           /\ NextCalls(r.calls) < MaxConcNexts
           /\ ConcDispatch(i, r.q, xQueues[r.q],
                           [r EXCEPT !.calls =
                               [k \in 1..Len(r.calls) |->
                                   IF k = c
                                   THEN [h |-> r.calls[k].h,
                                         params |-> r.calls[k].params,
                                         nexts |-> r.calls[k].nexts + 1,
                                         returned |-> r.calls[k].returned]
                                   ELSE r.calls[k]]])
    /\ UNCHANGED <<muxVars, matchVars, simplifyVars, trieVars>>

\* The running handler of request i returns.
ConcReturn(i) ==
    /\ xReqs[i].pc = "serving"
    /\ Len(xReqs[i].stack) > 0
    /\ xReqs' =
           [j \in ReqIds |->
               IF j # i THEN xReqs[j]
               ELSE LET r == xReqs[i]
                        c == r.stack[Len(r.stack)]
                    IN  [hr |-> r.hr,
                         q |-> r.q,
                         stack |-> SubSeq(r.stack, 1, Len(r.stack) - 1),
                         calls |-> [k \in 1..Len(r.calls) |->
                                       IF k = c
                                       THEN [h |-> r.calls[k].h,
                                             params |-> r.calls[k].params,
                                             nexts |-> r.calls[k].nexts,
                                             returned |-> TRUE]
                                       ELSE r.calls[k]],
                         w |-> r.w,
                         pc |-> IF Len(r.stack) = 1 THEN "returned"
                                ELSE "serving"]]
    /\ UNCHANGED xQueues
    /\ UNCHANGED <<muxVars, matchVars, simplifyVars, trieVars>>

NextConc ==
    \/ \E i \in ReqIds, method \in RequestMethods, path \in MuxPaths :
           ConcServeHTTP(i, method, path)
    \/ \E i \in ReqIds : ConcNext(i)
    \/ \E i \in ReqIds : ConcReturn(i)

SpecConc == InitConc /\ [][NextConc]_vars

(***************************************************************************)
(* The matcher on its own: compileMatcher applied to a pattern string,     *)
(* then match applied to a path, one iteration of its loop at a time.      *)
(* The patterns are all strings of up to MaxPatLen characters over         *)
(* PatAlphabet and a few longer ones; the paths all strings of up to       *)
(* MaxPathLen characters over PathAlphabet.                                *)
(***************************************************************************)
Strings(alphabet, n) == UNION {[1..m -> alphabet] : m \in 0..n}

PatAlphabet == {SLASH, CHa, STAR, LBRACE, RBRACE, BSLASH, HYPHEN}

PathAlphabet == {SLASH, CHa, HYPHEN}

LongPatterns ==
    { PatTwice,
      <<SLASH, LBRACE, CHa, RBRACE>>,                               \* "/{a}"
      <<SLASH, CHa, SLASH, STAR>>,                                  \* "/a/*"
      <<SLASH, CHa, BSLASH, STAR>>,                                 \* "/a\*"
      <<LBRACE, LBRACK, CHa, RBRACK, RBRACE>>,                      \* "{[a]}"
      <<SLASH, LBRACE, CHa, RBRACE, HYPHEN, CHb>>,                  \* "/{a}-b"
      <<LBRACE, CHa, LBRACK, CHa, RBRACK, RBRACE>>,                 \* "{a[a]}"
      <<LBRACE, CHa, LBRACK, CHa, RBRACK, RBRACE, LBRACE, CHb, RBRACE>>,
                                                                    \* "{a[a]}{b}"
      <<SLASH, LBRACE, CHa, LBRACK, CHa, HYPHEN, CHb, RBRACK, RBRACE, HYPHEN>>,
                                                                    \* "/{a[a-b]}-"
      <<LBRACE, CHa, RBRACE, HYPHEN, LBRACE, CHb, RBRACE>>,         \* "{a}-{b}"
      <<LBRACE, CHa, LBRACK, CHa, RBRACK, RBRACE,
        LBRACE, CHb, LBRACK, HYPHEN, RBRACK, RBRACE>>,              \* "{a[a]}{b[-]}"
      <<LBRACE, CHa, LBRACK, CHa, RBRACK>>,                         \* "{a[a]"
      <<LBRACE, CHa, LBRACK, CHa, RBRACK, CHa>>                     \* "{a[a]a"
    }

Patterns == Strings(PatAlphabet, MaxPatLen) \cup LongPatterns

\* Paths that hold a backslash, a '*' or a '{'.
EscapePaths ==
    { <<SLASH, CHa, BSLASH, STAR>>,                                 \* "/a\*"
      <<SLASH, CHa, STAR>>,                                         \* "/a*"
      <<CHa, BSLASH, STAR>>,                                        \* "a\*"
      <<BSLASH, STAR>>,                                             \* "\*"
      <<STAR>>,                                                     \* "*"
      <<BSLASH, LBRACE>>,                                           \* "\{"
      <<LBRACE>>                                                    \* "{"
    }

\* Paths with more than one place where a parameter could end.
LongPaths ==
    { <<SLASH, CHa, HYPHEN, CHa, HYPHEN, CHb>>,                     \* "/a-a-b"
      <<SLASH, CHa, CHa, HYPHEN, CHb>>,                             \* "/aa-b"
      <<SLASH, CHa, SLASH, CHa>>,                                   \* "/a/a"
      <<SLASH, CHa, HYPHEN, CHa>>                                   \* "/a-a"
    }

Paths == Strings(PathAlphabet, MaxPathLen) \cup EscapePaths \cup LongPaths

InitMatch ==
    /\ MuxIdle
    /\ mPattern \in Patterns
    /\ mMatcher = Fail("errEmptyPattern")
    /\ mPath = <<>>
    /\ mK = 0
    /\ mRest = <<>>
    /\ mBuf = <<>>
    /\ mStage = "input"
    /\ SimplifyIdle
    /\ TrieIdle
    /\ ConcIdle

Compile ==
    /\ mStage = "input"
    /\ \E c \in {compileMatcher(mPattern)} :
           /\ mMatcher' = c
           /\ mStage' = IF c.err = "nil" THEN "compiled" ELSE "error"
    /\ UNCHANGED <<mPattern, mPath, mK, mRest, mBuf>>
    /\ UNCHANGED muxVars
    /\ UNCHANGED <<simplifyVars, trieVars, concVars>>

\* The call matcher.match(path, nil).
Match(path) ==
    /\ mStage = "compiled"
    /\ mPath' = path
    /\ mK' = 1
    /\ mRest' = path
    /\ mBuf' = <<>>
    /\ mStage' = "matching"
    /\ UNCHANGED <<mPattern, mMatcher>>
    /\ UNCHANGED muxVars
    /\ UNCHANGED <<simplifyVars, trieVars, concVars>>

\* One iteration of its loop, or its return.
MatchIter ==
    /\ mStage = "matching"
    /\ \E it \in {matchIter(mMatcher.fs, mK, mRest, mBuf)} :
           IF it.done
           THEN /\ mStage' = IF it.res.ok THEN "matched" ELSE "failed"
                /\ mBuf' = it.res.list
                /\ UNCHANGED <<mK, mRest>>
           ELSE /\ mStage' = "matching"
                /\ mK' = it.k
                /\ mRest' = it.path
                /\ mBuf' = it.buf
    /\ UNCHANGED <<mPattern, mMatcher, mPath>>
    /\ UNCHANGED muxVars
    /\ UNCHANGED <<simplifyVars, trieVars, concVars>>

NextMatch ==
    \/ Compile
    \/ \E path \in Paths : Match(path)
    \/ MatchIter

SpecMatch == InitMatch /\ [][NextMatch]_vars

(***************************************************************************)
(* The two matchers side by side: the same patterns and paths, handed to   *)
(* compileMatcher and match or to compilePattern and pattern.match.        *)
(***************************************************************************)
CompilePattern ==
    /\ mStage = "input"
    /\ \E c \in {compilePattern(mPattern)} :
           /\ mMatcher' = c
           /\ mStage' = IF c.err = "nil" THEN "pattern" ELSE "patternError"
    /\ UNCHANGED <<mPattern, mPath, mK, mRest, mBuf>>
    /\ UNCHANGED muxVars
    /\ UNCHANGED <<simplifyVars, trieVars, concVars>>

\* The call pattern.match(in, nil).
PatternMatch(in) ==
    /\ mStage = "pattern"
    /\ mPath' = in
    /\ mK' = 1
    /\ mRest' = in
    /\ mBuf' = <<>>
    /\ mStage' = "patternMatching"
    /\ UNCHANGED <<mPattern, mMatcher>>
    /\ UNCHANGED muxVars
    /\ UNCHANGED <<simplifyVars, trieVars, concVars>>

\* One iteration of its loop, or its return.
PatternMatchIter ==
    /\ mStage = "patternMatching"
    /\ \E it \in {patternMatchIter(mMatcher.fs, mK, mRest, mBuf)} :
           IF it.done
           THEN /\ mStage' = IF it.res.ok THEN "patternMatched"
                             ELSE "patternFailed"
                /\ mBuf' = it.res.list
                /\ UNCHANGED <<mK, mRest>>
           ELSE /\ mStage' = "patternMatching"
                /\ mK' = it.k
                /\ mRest' = it.path
                /\ mBuf' = it.buf
    /\ UNCHANGED <<mPattern, mMatcher, mPath>>
    /\ UNCHANGED muxVars
    /\ UNCHANGED <<simplifyVars, trieVars, concVars>>

NextPattern ==
    \/ NextMatch
    \/ CompilePattern
    \/ \E in \in Paths : PatternMatch(in)
    \/ PatternMatchIter

SpecPattern == InitMatch /\ [][NextPattern]_vars

(***************************************************************************)
(* The charsets: compileMatcher applied to "{a[" body "]}", the bodies all *)
(* strings of up to MaxSetLen characters over SetAlphabet and a few longer *)
(* ones, then match applied to a path.                                     *)
(***************************************************************************)
SetAlphabet == {CHa, CHb, STAR, HYPHEN, SLASH, BSLASH, LBRACK, RBRACK}

LongSets ==
    { <<CHa, HYPHEN, CHa, HYPHEN, CHb>>,                \* a-a-b
      <<CHa, HYPHEN, CHb, HYPHEN, CHa>>,                \* a-b-a
      <<CHa, CHa, HYPHEN, HYPHEN, CHb>>,                \* aa--b
      <<STAR, HYPHEN, BSLASH, HYPHEN>>,                 \* *-\-
      <<BSLASH, LBRACK, HYPHEN, BSLASH, RBRACK>>,       \* \[-\]
      <<CHa, HYPHEN, BSLASH, CHb>> }                    \* a-\b

CharsetPattern(body) == <<LBRACE, CHa, LBRACK>> \o body \o <<RBRACK, RBRACE>>

CharsetPatterns ==
    {CharsetPattern(body) : body \in Strings(SetAlphabet, MaxSetLen) \cup LongSets}

InitCharset ==
    /\ MuxIdle
    /\ mPattern \in CharsetPatterns
    /\ mMatcher = Fail("errEmptyPattern")
    /\ mPath = <<>>
    /\ mK = 0
    /\ mRest = <<>>
    /\ mBuf = <<>>
    /\ mStage = "input"
    /\ SimplifyIdle
    /\ TrieIdle
    /\ ConcIdle

SpecCharset == InitCharset /\ [][NextMatch]_vars

(***************************************************************************)
(* simplifyCharset on its own: applied to every list of up to MaxPairs     *)
(* pairs low <= high over the first MaxRunes letters, in any order.        *)
(***************************************************************************)
Runes == CHa..(CHa + MaxRunes - 1)

RunePairs == {pr \in Runes \X Runes : pr[1] <= pr[2]}

\* The pairs as simplifyCharset takes them: low, high, low, high, ...
Flatten(ps) ==
    [k \in 1..(2 * Len(ps)) |->
        IF k % 2 = 1 THEN ps[(k + 1) \div 2][1] ELSE ps[k \div 2][2]]

PairLists ==
    {Flatten(ps) : ps \in UNION {[1..m -> RunePairs] : m \in 0..MaxPairs}}

InitSimplify ==
    /\ MuxIdle
    /\ MatchIdle
    /\ TrieIdle
    /\ ConcIdle
    /\ cIn \in PairLists
    /\ cOut = <<>>
    /\ cStage = "input"

Simplify ==
    /\ cStage = "input"
    /\ cOut' = simplifyCharset(cIn)
    /\ cStage' = "done"
    /\ UNCHANGED cIn
    /\ UNCHANGED <<muxVars, matchVars, trieVars, concVars>>

SpecSimplify == InitSimplify /\ [][Simplify]_vars

(***************************************************************************)
(* simplifyCharset applied to its own result: the lists of up to           *)
(* MaxTwicePairs pairs are simplified, and the result is simplified again. *)
(***************************************************************************)
TwiceLists ==
    {Flatten(ps) : ps \in UNION {[1..m -> RunePairs] : m \in 0..MaxTwicePairs}}

InitSimplifyTwice ==
    /\ MuxIdle
    /\ MatchIdle
    /\ TrieIdle
    /\ ConcIdle
    /\ cIn \in TwiceLists
    /\ cOut = <<>>
    /\ cStage = "input"

SimplifyAgain ==
    /\ cStage = "done"
    /\ cOut' = simplifyCharset(cOut)
    /\ cStage' = "again"
    /\ UNCHANGED cIn
    /\ UNCHANGED <<muxVars, matchVars, trieVars, concVars>>

NextSimplifyTwice == Simplify \/ SimplifyAgain

SpecSimplifyTwice == InitSimplifyTwice /\ [][NextSimplifyTwice]_vars

(***************************************************************************)
(* The trie-based Mux: up to MaxAdds calls of Add, then a request.         *)
(* ServeHTTP leaves the trie as it is, so one request is served in each    *)
(* behaviour.  A call of Add that panics ends the program.                 *)
(***************************************************************************)
TrieAddMethods ==
    { <<71, 69, 84>>,                                               \* "GET"
      <<112, 117, 116>>                                             \* "put"
    }

TrieRequestMethods ==
    { <<71, 69, 84>>,                                               \* "GET"
      <<80, 85, 84>>,                                               \* "PUT"
      <<72, 69, 65, 68>>                                            \* "HEAD"
    }

TriePatterns ==
    { <<SLASH, CHa>>,                                               \* "/a"
      <<SLASH, COLON, CHa>>,                                        \* "/:a"
      <<SLASH, CHa, SLASH, COLON, CHb>>,                            \* "/a/:b"
      <<SLASH, CHa, SLASH>>,                                        \* "/a/"
      <<SLASH, COLON>>                                              \* "/:"
    }

TriePaths ==
    { <<SLASH>>,                                                    \* "/"
      <<SLASH, CHa>>,                                               \* "/a"
      <<SLASH, CHb>>,                                               \* "/b"
      <<SLASH, CHa, SLASH>>,                                        \* "/a/"
      <<SLASH, CHa, SLASH, CHb>>,                                   \* "/a/b"
      <<SLASH, CHa, SLASH, SLASH, CHb>>,                            \* "/a//b"
      <<SLASH, CHb, SLASH, CHb>>                                    \* "/b/b"
    }

TrieQueries ==
    { <<>>,                                                         \* ""
      <<CHa, 61, CHb>>                                              \* "a=b"
    }

TrieHandlers == {"h1", "h2"}

InitTrie == MuxIdle /\ MatchIdle /\ SimplifyIdle /\ TrieIdle /\ ConcIdle

TrieAdd(method, pattern, handler) ==
    /\ tStage = "idle"
    /\ Len(tLog) < MaxAdds
    /\ \E a \in {muxAdd(trie, method, pattern, handler)} :
           /\ trie' = a.t
           /\ tStage' = IF a.panic THEN "panic" ELSE "idle"
           /\ tLog' = IF a.panic THEN tLog
                      ELSE Append(tLog, [method |-> method,
                                         pattern |-> pattern,
                                         handler |-> handler])
    /\ UNCHANGED <<tReq, tResp>>
    /\ UNCHANGED <<muxVars, matchVars, simplifyVars, concVars>>

TrieServe(method, path, query) ==
    /\ tStage = "idle"
    /\ tReq' = [method |-> method, path |-> path, query |-> query]
    /\ tResp' = serveHTTP(trie, tReq')
    /\ tStage' = "served"
    /\ UNCHANGED <<trie, tLog>>
    /\ UNCHANGED <<muxVars, matchVars, simplifyVars, concVars>>

NextTrie ==
    \/ \E method \in TrieAddMethods, pattern \in TriePatterns,
          handler \in TrieHandlers : TrieAdd(method, pattern, handler)
    \/ \E method \in TrieRequestMethods, path \in TriePaths,
          query \in TrieQueries : TrieServe(method, path, query)

SpecTrie == InitTrie /\ [][NextTrie]_vars

(***************************************************************************)
(* The claims about the Mux (specification Spec).                          *)
(***************************************************************************)
\* A route matches a request when its method is the request's or "" and its
\* compiled pattern matches the path.
Matches(r, req) ==
    /\ r.method = req.method \/ r.method = ""
    /\ match(r.matcher, req.path, <<>>).ok

MatchingRoutes(rs, req) == {i \in 1..Len(rs) : Matches(rs[i], req)}

Min(S) == CHOOSE x \in S : \A y \in S : x <= y

Max(S) == CHOOSE x \in S : \A y \in S : x >= y

\* The index of the first route that matches, 0 when none does.
FirstMatch(rs, req) ==
    IF MatchingRoutes(rs, req) = {} THEN 0 ELSE Min(MatchingRoutes(rs, req))

\* C1: the first handler invoked for a request is handler 0 of the first
\* route, in registration order, whose method is the request's or "" and
\* whose pattern matches the path.
C1_FirstMatchWins ==
    /\ (pc # "idle" /\ FirstMatch(routes, hr) > 0) => Len(calls) > 0
    /\ Len(calls) > 0 =>
           /\ FirstMatch(routes, hr) > 0
           /\ calls[1].h = routes[FirstMatch(routes, hr)].handlers[1]
           /\ calls[1].h.id = <<FirstMatch(routes, hr), 1>>

\* GET /a and GET /* registered in that order, GET /a requested: two routes
\* match and the first one's handler runs.
C1_Witness ==
    /\ Len(routes) = 2
    /\ routes[1].matcher = compileMatcher(PatA).fs
    /\ routes[2].matcher = compileMatcher(PatWild).fs
    /\ MatchingRoutes(routes, hr) = {1, 2}
    /\ Len(calls) > 0
    /\ calls[1].h.id = <<1, 1>>

PathMatchingRoutes(rs, req) ==
    {i \in 1..Len(rs) : match(rs[i].matcher, req.path, <<>>).ok}

\* C3: a request whose path matches a route's pattern but whose method
\* matches none of those routes is answered with 405, not 404.
C3_MethodMismatchIs405 ==
    ( /\ pc = "returned"
      /\ PathMatchingRoutes(routes, hr) # {}
      /\ MatchingRoutes(routes, hr) = {} ) => w.status = 405

\* C4: when every handler of the matched route but the last calls Next
\* exactly once and the last does not, the handlers of the route are each
\* invoked once, in list order, and no not-found response is written.
C4_ChainPremise(i) ==
    \A c \in 1..Len(calls) :
        calls[c].h.id[1] = i =>
            calls[c].nexts =
                IF calls[c].h.id[2] < Len(routes[i].handlers) THEN 1 ELSE 0

C4_ChainRunsInOrder ==
    (pc = "returned" /\ FirstMatch(routes, hr) > 0
        /\ C4_ChainPremise(FirstMatch(routes, hr))) =>
        /\ Len(calls) = Len(routes[FirstMatch(routes, hr)].handlers)
        /\ \A j \in 1..Len(calls) :
               calls[j].h = routes[FirstMatch(routes, hr)].handlers[j]
        /\ w = [status |-> 0, body |-> <<>>]

\* A chain of two handlers, the first calling Next once: both have run, in
\* order, with a later matching route left untried.
C4_Witness ==
    /\ pc = "returned"
    /\ FirstMatch(routes, hr) = 1
    /\ Len(routes[1].handlers) = 2
    /\ C4_ChainPremise(1)
    /\ Len(calls) = 2
    /\ MatchingRoutes(routes, hr) = {1, 2}

\* C5 as stated: once an invoked handler has returned without calling Next,
\* no handler is invoked after it and no 404 is written.
C5_ReturnEndsChain ==
    \A c \in 1..Len(calls) :
        (calls[c].returned /\ calls[c].nexts = 0) =>
            (c = Len(calls) /\ w.status = 0)

\* C5, amended: the same, provided no handler of the request calls Next more
\* than once.
C5_ReturnEndsChainCalledOnce ==
    (\A c \in 1..Len(calls) : calls[c].nexts <= 1) =>
        \A c \in 1..Len(calls) :
            (calls[c].returned /\ calls[c].nexts = 0) =>
                (c = Len(calls) /\ w.status = 0)

\* The first handler called Next, the second returned without calling it, and
\* the request is over with a matching route left untried.
C5_Witness ==
    /\ pc = "returned"
    /\ Len(calls) = 2
    /\ calls[1].nexts = 1
    /\ calls[2].returned /\ calls[2].nexts = 0
    /\ MatchingRoutes(routes, hr) = {1, 2}
    /\ Len(queue.routes) = 1

\* The captures of the request's path by the pattern of route i, as route.check
\* hands them to the queue.
CapturesOf(i) == check(routes[i], hr.method, hr.path).params

\* C6: every handler invoked received the captures of its own route, and the
\* queue holds the captures and the remaining handlers of the route of the
\* handler invoked last.
C6_ParamsOfOwnRoute ==
    /\ \A c \in 1..Len(calls) :
           /\ calls[c].h = routes[calls[c].h.id[1]].handlers[calls[c].h.id[2]]
           /\ calls[c].params = CapturesOf(calls[c].h.id[1])
    /\ Len(calls) > 0 =>
           LET last == calls[Len(calls)].h.id IN
           /\ queue.params = CapturesOf(last[1])
           /\ queue.handlers = SubSeq(routes[last[1]].handlers, last[2] + 1,
                                      Len(routes[last[1]].handlers))

\* Handlers of two routes with different captures have run, one handler
\* having called Next twice.
C6_Witness ==
    /\ Len(calls) = 3
    /\ calls[1].nexts = 2
    /\ calls[2].h.id[1] = 1
    /\ calls[3].h.id[1] = 2
    /\ calls[2].params # calls[3].params
    /\ calls[2].params # <<>>
    /\ calls[3].params # <<>>

ValidShapes == {"Handler", "roboFunc", "http.Handler", "httpFunc"}

\* A registration that must fail: no handlers, a handler of an unsupported
\* shape, or a pattern that does not compile.
BadRegistration(pat, handlers) ==
    \/ Len(handlers) = 0
    \/ \E j \in 1..Len(handlers) : handlers[j] \notin ValidShapes
    \/ compileMatcher(pat).err # "nil"

WellFormedRoute(r) ==
    /\ Len(r.handlers) >= 1
    /\ \A j \in 1..Len(r.handlers) :
           r.handlers[j].kind \in {"Handler", "HandlerFunc", "httpHandler"}
    /\ Len(r.matcher) >= 1
    /\ \A j \in 1..Len(r.matcher) :
           r.matcher[j].t \in
               {literalFragment, exclusiveFragment, inclusiveFragment,
                wildcardFragment}

\* C7: a registration with no handlers, with a handler of an unsupported
\* shape or with a pattern that fails to compile panics and leaves the route
\* table as it was; every route of the table has a compiled pattern and at
\* least one handler.
C7_RegistrationValidates ==
    /\ [](\A i \in 1..Len(routes) : WellFormedRoute(routes[i]))
    /\ [][\A method \in Methods, pat \in MuxPatterns, handlers \in HandlerLists :
              (Register(method, pat, handlers) /\ BadRegistration(pat, handlers))
                  => (fatal' # "nil" /\ routes' = routes)]_vars

\* A registration has failed on its pattern after another one succeeded.
C7_Witness ==
    /\ fatal = "errMissingRBrace"
    /\ Len(routes) = 1

ParamNames == {<<CHa>>, <<CHb>>, <<STAR>>}

\* The value of the right-most capture of the name in a list of name/value
\* pairs, the empty string when the name is not captured.
RightMost(list, name) ==
    LET at == {j \in 1..(Len(list) \div 2) : list[2 * j - 1] = name}
    IN  IF at = {} THEN <<>> ELSE list[2 * Max(at)]

\* C8: Param(name) is the value the route's match captured for the name, the
\* right-most one when the name is captured more than once, the empty string
\* when it is not captured; the wildcard's capture goes by the name "*".
C8_ParamLookup ==
    \A c \in 1..Len(calls) : \A name \in ParamNames :
        Param(calls[c].params, name) =
            RightMost(match(routes[calls[c].h.id[1]].matcher, hr.path, <<>>).list,
                      name)

\* "/a-b" served by "/{a}-{a}" and then by "/*": Param("a") is "b" in the first
\* route's handler, Param("*") is "a-b" and Param("a") is "" in the second's.
C8_Witness ==
    /\ hr.path = <<SLASH, CHa, HYPHEN, CHb>>
    /\ Len(calls) >= 2
    /\ routes[calls[1].h.id[1]].matcher = compileMatcher(PatTwice).fs
    /\ Param(calls[1].params, <<CHa>>) = <<CHb>>
    /\ Param(calls[1].params, <<STAR>>) = <<>>
    /\ \E c \in 2..Len(calls) :
           /\ Param(calls[c].params, <<STAR>>) = <<CHa, HYPHEN, CHb>>
           /\ Param(calls[c].params, <<CHa>>) = <<>>

(***************************************************************************)
(* The claims about the matcher (specification SpecMatch).                 *)
(***************************************************************************)
\* A pattern of literal text only: no backslash, '*' or '{'.
IsLiteralText(p) ==
    /\ Len(p) > 0
    /\ \A j \in 1..Len(p) : p[j] \notin {BSLASH, STAR, LBRACE}

\* C9: a match holds only when nothing of the path is left over; a pattern of
\* literal text compiles, and matches exactly the path equal to it, with no
\* captures.
C9_WholeInputConsumed ==
    /\ mStage = "matched" => mRest = <<>>
    /\ IsLiteralText(mPattern) =>
           /\ mStage # "error"
           /\ mStage = "matched" => (mPath = mPattern /\ mBuf = <<>>)
           /\ mStage = "failed" => mPath # mPattern

\* A literal pattern has consumed its text and the match failed on what was
\* left of the path.
C9_Witness ==
    /\ mStage = "failed"
    /\ IsLiteralText(mPattern)
    /\ mK > Len(mMatcher.fs)
    /\ Len(mPath) > Len(mPattern)
    /\ SubSeq(mPath, 1, Len(mPattern)) = mPattern

\* The fragment is a parameter, something of the path is left and its very
\* next rune is excluded (exclusion parameter) or outside the charset
\* (inclusion parameter).
CannotConsume(f, path) ==
    /\ f.t \in {exclusiveFragment, inclusiveFragment}
    /\ Len(path) > 0
    /\ f.t = exclusiveFragment => \E j \in 1..Len(f.r) : f.r[j] = path[1]
    /\ f.t = inclusiveFragment =>
           ~\E j \in 1..(Len(f.r) \div 2) :
                f.r[2 * j - 1] <= path[1] /\ path[1] <= f.r[2 * j]

AtStuckParameter ==
    /\ mStage = "matching"
    /\ mK <= Len(mMatcher.fs)
    /\ CannotConsume(mMatcher.fs[mK], mRest)

\* C10 as stated: a parameter that can consume no rune records a zero-length
\* capture and the match goes on with the next fragment.
C10_ZeroLengthCapture ==
    [][AtStuckParameter =>
           /\ mStage' = "matching"
           /\ mK' = mK + 1
           /\ mRest' = mRest
           /\ mBuf' = mBuf \o <<mMatcher.fs[mK].s, <<>>>>]_vars

\* C10, amended: a parameter that can consume no rune fails the whole match,
\* which returns no captures.
C10_ZeroLengthFails ==
    [][AtStuckParameter => (mStage' = "failed" /\ mBuf' = <<>>)]_vars

\* A match has failed at an exclusion parameter whose next rune was excluded,
\* after an earlier parameter had captured something.
C10_Witness ==
    /\ mStage = "failed"
    /\ mK <= Len(mMatcher.fs)
    /\ mK > 1
    /\ CannotConsume(mMatcher.fs[mK], mRest)

\* The fragments that capture, in order: parameters and the wildcard.
CapturingFragments(fs) == SelectSeq(fs, LAMBDA f : f.t # literalFragment)

\* The captures are those of the capturing fragments, and no parameter's
\* value is empty.
NoEmptyParameter(fs, buf) ==
    LET cf == CapturingFragments(fs) IN
    /\ Len(buf) = 2 * Len(cf)
    /\ \A j \in 1..Len(cf) :
           cf[j].t \in {exclusiveFragment, inclusiveFragment} =>
               (buf[2 * j - 1] = cf[j].s /\ buf[2 * j] # <<>>)

\* Either matcher is at a parameter that would consume zero bytes: nothing
\* of the path is left, or its next rune stops the parameter.
AtEmptyParameter ==
    /\ mStage \in {"matching", "patternMatching"}
    /\ mK <= Len(mMatcher.fs)
    /\ mMatcher.fs[mK].t \in {exclusiveFragment, inclusiveFragment}
    /\ mRest = <<>> \/ CannotConsume(mMatcher.fs[mK], mRest)

\* C11: a successful match holds no empty value for a named parameter; a
\* parameter fragment that would consume zero bytes, the exhausted input
\* included, fails the whole match (in both matchers).
C11_NoEmptyParameter ==
    /\ [](mStage \in {"matched", "patternMatched"} =>
              NoEmptyParameter(mMatcher.fs, mBuf))
    /\ [][AtEmptyParameter =>
              (mStage' \in {"failed", "patternFailed"} /\ mBuf' = <<>>)]_vars

\* "/{a}-{a}" on "/a-": the match has failed at the second parameter, with
\* the input exhausted.
C11_Witness ==
    /\ mStage = "failed"
    /\ mPattern = PatTwice
    /\ mPath = <<SLASH, CHa, HYPHEN>>
    /\ mK = 4
    /\ mRest = <<>>
    /\ mMatcher.fs[mK].t = exclusiveFragment

PatAWild == <<SLASH, CHa, SLASH, STAR>>                     \* "/a/*"

AtWildcard ==
    /\ mStage = "matching"
    /\ mK <= Len(mMatcher.fs)
    /\ mMatcher.fs[mK].t = wildcardFragment

\* The text before the final '*' of a pattern made of literal text and that
\* '*'.
BeforeWildcard(p) == SubSeq(p, 1, Len(p) - 1)

LiteralThenWildcard(p) ==
    /\ Len(p) >= 2
    /\ p[Len(p)] = STAR
    /\ IsLiteralText(BeforeWildcard(p))

IsPrefix(s, t) == Len(s) <= Len(t) /\ SubSeq(t, 1, Len(s)) = s

\* C12: in compileMatcher/fragmentMatcher a wildcard consumes all that is
\* left of the input, zero bytes included, and records it under "*": literal
\* text followed by '*' matches exactly the paths that begin with the text,
\* "/a/*" matches "/a/" with ("*", "") and does not match "/a".
C12_WildcardTakesRest ==
    /\ [][AtWildcard =>
              /\ mStage' = "matching"
              /\ mK' = mK + 1
              /\ mRest' = <<>>
              /\ mBuf' = mBuf \o <<<<STAR>>, mRest>>]_vars
    /\ []((mStage \in {"matched", "failed"} /\ LiteralThenWildcard(mPattern)) =>
              IF IsPrefix(BeforeWildcard(mPattern), mPath)
              THEN /\ mStage = "matched"
                   /\ mBuf = <<<<STAR>>,
                               SubSeq(mPath, Len(mPattern), Len(mPath))>>
              ELSE mStage = "failed")

\* "/a/*" has matched "/a/" with the capture ("*", "").
C12_Witness ==
    /\ mStage = "matched"
    /\ mPattern = PatAWild
    /\ mPath = <<SLASH, CHa, SLASH>>
    /\ mBuf = <<<<STAR>>, <<>>>>

\* C13: in compilePattern/pattern.match a pattern that ends in a wildcard
\* matches the input that ends where the wildcard begins, with the capture
\* ("*", ""): "/a/*" on "/a/".
C13_PatternWildcardAtEnd ==
    ( /\ mStage \in {"patternMatched", "patternFailed"}
      /\ LiteralThenWildcard(mPattern)
      /\ mPath = BeforeWildcard(mPattern) ) =>
        (mStage = "patternMatched" /\ mBuf = <<<<STAR>>, <<>>>>)

\* The number of consecutive backslashes that end right before position j
\* of p, counted down to position lo at most.
BackslashRun(p, lo, j) ==
    Max({n \in 0..(j - lo) : \A k \in (j - n)..(j - 1) : p[k] = BSLASH})

\* Position i of p holds a '*' at which a fragment begins: what stands before
\* it compiles on its own and does not end in a pending escape.
StarBoundary(p, i) ==
    /\ p[i] = STAR
    /\ i = 1 \/ /\ compileMatcher(SubSeq(p, 1, i - 1)).err = "nil"
                /\ BackslashRun(p, 1, i) % 2 = 0

StarBoundaries(p) == {i \in 1..Len(p) : StarBoundary(p, i)}

\* C14: an unescaped '*' outside a parameter compiles only as the last
\* character of the pattern, and fails with errIllegalWildcard anywhere
\* else; a compiled pattern has at most one wildcard fragment, its last.
C14_WildcardOnlyLast ==
    mStage \in {"compiled", "error"} =>
        /\ (\E i \in StarBoundaries(mPattern) : i < Len(mPattern)) <=>
               mMatcher.err = "errIllegalWildcard"
        /\ StarBoundaries(mPattern) = {Len(mPattern)} =>
               /\ mMatcher.err = "nil"
               /\ mMatcher.fs[Len(mMatcher.fs)].t = wildcardFragment
        /\ mMatcher.err = "nil" =>
               \A j \in 1..Len(mMatcher.fs) :
                   mMatcher.fs[j].t = wildcardFragment => j = Len(mMatcher.fs)

\* "/*/" has failed to compile with errIllegalWildcard.
C14_Witness ==
    /\ mStage = "error"
    /\ mPattern = <<SLASH, STAR, SLASH>>
    /\ mMatcher.err = "errIllegalWildcard"

\* The positions after the opening brace of p that hold an unescaped '[' or
\* '}'.
ParamSpecials(p) ==
    {j \in 2..Len(p) :
        p[j] \in {LBRACK, RBRACE} /\ BackslashRun(p, 2, j) % 2 = 0}

\* The charset block that begins at position j of p compiles and is not
\* followed by '}'.
CharsetNotClosed(p, j) ==
    LET cs == compileCharsetFragment(SubSeq(p, j, Len(p))) IN
    /\ cs.err = "nil"
    /\ j - 1 + cs.n = Len(p) \/ p[j + cs.n] # RBRACE

CharsetClosed(p, j) ==
    LET cs == compileCharsetFragment(SubSeq(p, j, Len(p))) IN
    /\ cs.err = "nil"
    /\ j - 1 + cs.n < Len(p)
    /\ p[j + cs.n] = RBRACE

\* C15: a pattern that begins with '{' fails with errMissingRBrace when it
\* ends before an unescaped '[' or '}' and when its charset block is not
\* directly followed by '}', and with errEmptyParameter when it begins with
\* "{}"; when it compiles, its first parameter is properly closed.
C15_ParameterClosed ==
    (mStage \in {"compiled", "error"} /\ Len(mPattern) > 0
        /\ mPattern[1] = LBRACE) =>
        LET sp == ParamSpecials(mPattern) IN
        /\ sp = {} => mMatcher.err = "errMissingRBrace"
        /\ (sp # {} /\ Min(sp) = 2 /\ mPattern[2] = RBRACE) =>
               mMatcher.err = "errEmptyParameter"
        /\ (sp # {} /\ mPattern[Min(sp)] = LBRACK
               /\ CharsetNotClosed(mPattern, Min(sp))) =>
               mMatcher.err = "errMissingRBrace"
        /\ mMatcher.err = "nil" =>
               /\ sp # {}
               /\ \/ mPattern[Min(sp)] = RBRACE /\ Min(sp) > 2
                  \/ mPattern[Min(sp)] = LBRACK
                         /\ CharsetClosed(mPattern, Min(sp))

\* "{a[a]a": the charset block is followed by a rune that is not '}'.
C15_Witness ==
    /\ mStage = "error"
    /\ mPattern = <<LBRACE, CHa, LBRACK, CHa, RBRACK, CHa>>
    /\ mMatcher.err = "errMissingRBrace"

\* The offsets in the pattern at which its fragments end, a fragment's end
\* being the offset of the rune that follows it.
RECURSIVE FragmentEnds(_, _, _)
FragmentEnds(p, off, ends) ==
    IF off >= Len(p) THEN ends
    ELSE LET c == compileFragment(SliceFrom(p, off)) IN
         IF c.err # "nil" THEN ends
         ELSE FragmentEnds(p, off + c.n, Append(ends, off + c.n))

RuneSet(r) == {r[k] : k \in 1..Len(r)}

PatAB == <<LBRACE, CHa, RBRACE, HYPHEN, LBRACE, CHb, RBRACE>>   \* "{a}-{b}"

\* C16: the exclusion set of a {name} parameter is '/' and, when a rune
\* follows the closing brace and is not '/', that rune, and nothing else;
\* "{a}-{b}" matches "a-a" with a = "a" and b = "a", "{a}" matches "a-a"
\* with a = "a-a".
C16_ExclusionSet ==
    /\ mStage \in {"compiled", "matching", "matched", "failed"} =>
           LET ends == FragmentEnds(mPattern, 0, <<>>) IN
           \A j \in 1..Len(mMatcher.fs) :
               mMatcher.fs[j].t = exclusiveFragment =>
                   LET want == {SLASH} \cup
                                   (IF ends[j] < Len(mPattern)
                                    THEN {mPattern[ends[j] + 1]} ELSE {})
                   IN  /\ RuneSet(mMatcher.fs[j].r) = want
                       /\ Len(mMatcher.fs[j].r) = Cardinality(want)
    /\ (mStage \in {"matched", "failed"} /\ mPath = <<CHa, HYPHEN, CHa>>) =>
           /\ mPattern = PatAB =>
                  /\ mStage = "matched"
                  /\ mBuf = <<<<CHa>>, <<CHa>>, <<CHb>>, <<CHa>>>>
           /\ mPattern = <<LBRACE, CHa, RBRACE>> =>
                  /\ mStage = "matched"
                  /\ mBuf = <<<<CHa>>, <<CHa, HYPHEN, CHa>>>>

\* "{a}-{b}" has matched "a-a": the first parameter stopped at the '-'.
C16_Witness ==
    /\ mStage = "matched"
    /\ mPattern = PatAB
    /\ mPath = <<CHa, HYPHEN, CHa>>
    /\ mMatcher.fs[1].r = <<SLASH, HYPHEN>>

(***************************************************************************)
(* The claims about charsets (specification SpecCharset).                  *)
(***************************************************************************)
\* What stands between "{a[" and the final "]}" of a charset pattern.
SetBody(p) == SubSeq(p, 4, Len(p) - 2)

\* Runes with no special meaning in a charset.
PlainRunes == {CHa, CHb, STAR}

\* C17: an unescaped '-' that is the first element of a charset, or that
\* directly follows the upper bound of a range (x-y-...), is rejected with
\* errUnexpectedHyphen; a '-' that directly follows a '-' is not accepted.
C17_HyphenRejected ==
    mStage \in {"compiled", "error"} =>
        LET b == SetBody(mPattern) IN
        /\ (Len(b) >= 1 /\ b[1] = HYPHEN) =>
               mMatcher.err = "errUnexpectedHyphen"
        /\ (Len(b) >= 4 /\ b[1] \in PlainRunes /\ b[2] = HYPHEN
               /\ b[3] \in PlainRunes /\ b[1] <= b[3] /\ b[4] = HYPHEN) =>
               mMatcher.err = "errUnexpectedHyphen"
        /\ (Len(b) >= 4 /\ b[1] \in PlainRunes /\ b[2] \in PlainRunes
               /\ b[3] = HYPHEN /\ b[4] = HYPHEN) =>
               mMatcher.err # "nil"

\* An inclusion parameter's capture, when it was made, holds no '/'.
NoSlashCaptured(fs, buf) ==
    LET cf == CapturingFragments(fs) IN
    \A j \in 1..Len(cf) :
        (cf[j].t = inclusiveFragment /\ 2 * j <= Len(buf)) =>
            SLASH \notin RuneSet(buf[2 * j])

\* C18: no compiled charset contains '/': a charset of single runes with a
\* '/' among them, the charset "\/" and a range x-y with x <= '/' <= y fail
\* with errCharsetHasSlash, and an inclusion parameter never captures a '/'.
C18_NoSlashInCharset ==
    /\ mStage \in {"compiled", "matching", "matched", "failed"} =>
           \A j \in 1..Len(mMatcher.fs) :
               mMatcher.fs[j].t = inclusiveFragment =>
                   \A k \in 1..(Len(mMatcher.fs[j].r) \div 2) :
                       ~(mMatcher.fs[j].r[2 * k - 1] <= SLASH
                           /\ SLASH <= mMatcher.fs[j].r[2 * k])
    /\ mStage \in {"compiled", "error"} =>
           LET b == SetBody(mPattern) IN
           /\ (Len(b) >= 1 /\ RuneSet(b) \subseteq PlainRunes \cup {SLASH}) =>
                  (mMatcher.err = "errCharsetHasSlash" <=> SLASH \in RuneSet(b))
           /\ b = <<BSLASH, SLASH>> => mMatcher.err = "errCharsetHasSlash"
           /\ (Len(b) = 3 /\ b[1] \in PlainRunes /\ b[2] = HYPHEN
                  /\ b[3] \in PlainRunes /\ b[1] <= b[3]) =>
                  (mMatcher.err = "errCharsetHasSlash" <=>
                       (b[1] <= SLASH /\ SLASH <= b[3]))
    /\ mStage \in {"matching", "matched"} => NoSlashCaptured(mMatcher.fs, mBuf)

\* "{a[*-a]}", whose range covers '/', has failed to compile.
C18_Witness ==
    /\ mStage = "error"
    /\ SetBody(mPattern) = <<STAR, HYPHEN, CHa>>
    /\ mMatcher.err = "errCharsetHasSlash"

\* C19: in a charset a backslash makes the next rune, and only that one, an
\* ordinary member or range bound: "\x" is the set {x} for x any of ']', '[',
\* '-', '\' (and the plain runes), the rune after it keeps its meaning,
\* "x-\y" is the range x to y, and "{a[\]}" fails with errMissingRBracket.
C19_EscapeInCharset ==
    mStage \in {"compiled", "error"} =>
        LET b == SetBody(mPattern) IN
        /\ b = <<BSLASH>> => mMatcher.err = "errMissingRBracket"
        /\ (Len(b) >= 2 /\ b[1] = BSLASH /\ b[2] # SLASH) =>
               /\ Len(b) = 2 =>
                      /\ mMatcher.err = "nil"
                      /\ Len(mMatcher.fs) = 1
                      /\ mMatcher.fs[1].t = inclusiveFragment
                      /\ mMatcher.fs[1].r = <<b[2], b[2]>>
               /\ (Len(b) = 3 /\ b[3] = RBRACK) =>
                      mMatcher.err = "errMissingRBrace"
               /\ (Len(b) = 3 /\ b[3] = LBRACK) =>
                      mMatcher.err = "errUnexpectedLBracket"
               /\ (Len(b) = 3 /\ b[3] = HYPHEN) =>
                      mMatcher.err = "errUnexpectedRBracket"
               /\ (Len(b) = 3 /\ b[3] \in PlainRunes) =>
                      /\ mMatcher.err = "nil"
                      /\ \A r \in SetAlphabet :
                             InCharset(r, mMatcher.fs[1].r) <=> r \in {b[2], b[3]}
        /\ (Len(b) = 4 /\ b[1] \in PlainRunes /\ b[2] = HYPHEN /\ b[3] = BSLASH
               /\ b[1] <= b[4] /\ ~(b[1] <= SLASH /\ SLASH <= b[4])) =>
               /\ mMatcher.err = "nil"
               /\ mMatcher.fs[1].r = <<b[1], b[4]>>

\* "{a[\]]}" has compiled to the charset of the one rune ']'.
C19_Witness ==
    /\ mStage = "compiled"
    /\ SetBody(mPattern) = <<BSLASH, RBRACK>>
    /\ mMatcher.fs[1].r = <<RBRACK, RBRACK>>

(***************************************************************************)
(* The claim about simplifyCharset (specification SpecSimplify).           *)
(***************************************************************************)
\* The runes that the pairs of a flattened list cover.
Covered(a) ==
    UNION {a[2 * k - 1]..a[2 * k] : k \in 1..(Len(a) \div 2)}

\* The pairs of a flattened list, as a set.
PairsOf(a) == {<<a[2 * k - 1], a[2 * k]>> : k \in 1..(Len(a) \div 2)}

Singletons(rs) == {<<r, r>> : r \in rs}

\* C20: whatever the order of its input pairs, simplifyCharset returns pairs
\* low <= high, ascending, each low at least the high before it plus 2, that
\* cover the runes of the input; a, b, c, d gives a-d and a, c, d gives
\* a, c-d.
C20_SimplifySortedDisjoint ==
    cStage = "done" =>
        /\ Len(cOut) % 2 = 0
        /\ \A k \in 1..(Len(cOut) \div 2) : cOut[2 * k - 1] <= cOut[2 * k]
        /\ \A k \in 2..(Len(cOut) \div 2) :
               cOut[2 * k - 1] >= cOut[2 * k - 2] + 2
        /\ Covered(cOut) = Covered(cIn)
        /\ PairsOf(cIn) = Singletons(CHa..(CHa + 3)) =>
               cOut = <<CHa, CHa + 3>>
        /\ PairsOf(cIn) = Singletons({CHa, CHa + 2, CHa + 3}) =>
               cOut = <<CHa, CHa, CHa + 2, CHa + 3>>

\* d, b, c, a has been simplified to a-d.
C20_Witness ==
    /\ cStage = "done"
    /\ cIn = <<CHa + 3, CHa + 3, CHb, CHb, CHa + 2, CHa + 2, CHa, CHa>>
    /\ cOut = <<CHa, CHa + 3>>

(***************************************************************************)
(* The claim about simplifyCharset applied twice (specification            *)
(* SpecSimplifyTwice).                                                     *)
(***************************************************************************)
\* C21: simplifyCharset is idempotent: for every list of pairs low <= high,
\* simplifying the simplified list again leaves it as it is.
C21_SimplifyIdempotent ==
    [][cStage = "done" => cOut' = cOut]_vars

\* c, a, b was simplified to a-c, and simplified again.
C21_Witness ==
    /\ cStage = "again"
    /\ cIn = <<CHa + 2, CHa + 2, CHa, CHa, CHb, CHb>>
    /\ cOut = <<CHa, CHa + 2>>

(***************************************************************************)
(* The claim about escapes in literal text (specification SpecMatch).      *)
(***************************************************************************)
PatEscapedStar == <<SLASH, CHa, BSLASH, STAR>>

\* Every '*' and '{' of p stands right after an odd number of backslashes.
AllEscaped(p) ==
    /\ Len(p) > 0
    /\ \A j \in 1..Len(p) :
           p[j] \in {STAR, LBRACE} => BackslashRun(p, 1, j) % 2 = 1

\* C22: in literal text a backslash makes the '*' or '{' after it part of the
\* literal, and stays in the stored text: a pattern whose every '*' and '{'
\* is escaped compiles to one literal fragment holding the pattern as
\* written, which matches the path equal to the pattern and no other;
\* "/a\*" matches "/a\*" and not "/a*".
C22_EscapeKeptInLiteral ==
    AllEscaped(mPattern) =>
        /\ mStage # "error"
        /\ mStage # "input" =>
               mMatcher.fs = <<Fragment(literalFragment, mPattern,
                                         Len(mPattern), <<>>)>>
        /\ mStage = "matched" => mPath = mPattern /\ mBuf = <<>>
        /\ mStage = "failed" => mPath # mPattern
        /\ (mPattern = PatEscapedStar /\ mPath = <<SLASH, CHa, STAR>>) =>
               mStage # "matched"

\* "/a\*" has matched the path "/a\*".
C22_Witness ==
    /\ mStage = "matched"
    /\ mPattern = PatEscapedStar
    /\ mPath = PatEscapedStar
    /\ mMatcher.fs[1].s = PatEscapedStar

(***************************************************************************)
(* The claim about the trie-based Mux (specification SpecTrie).            *)
(***************************************************************************)
IsParameter(seg) == Len(seg) > 1 /\ seg[1] = COLON

\* The pattern, split into segments, matches the path, split into segments:
\* a ':name' segment takes any segment that is not empty, any other segment
\* takes the segment equal to it.
SegmentsMatch(ps, xs) ==
    /\ Len(ps) = Len(xs)
    /\ \A k \in 1..Len(ps) :
           IF IsParameter(ps[k]) THEN xs[k] # <<>> ELSE xs[k] = ps[k]

\* The registrations whose pattern matches the path of the request.
TrieMatching ==
    {k \in 1..Len(tLog) :
        SegmentsMatch(split(tLog[k].pattern), split(tReq.path))}

\* The methods they were registered for.
TrieMatchingMethods == {toUpper(tLog[k].method) : k \in TrieMatching}

\* ms in ascending order, joined by ", ".
IsSortedJoin(text, ms) ==
    \E sq \in [1..Cardinality(ms) -> ms] :
        /\ \A j \in 1..(Len(sq) - 1) : StrLess(sq[j], sq[j + 1])
        /\ text = stringsJoin(sq, <<44, 32>>)

\* C23: a request whose path matches registered patterns, none of them for
\* its method, gets 405 and an Allow header with the methods of the matching
\* patterns, sorted and joined by ", ", and no handler runs; 404 is the
\* answer exactly when no registered pattern matches the path.
C23_MethodNotAllowed ==
    tStage = "served" =>
        /\ tResp.code = StatusNotFound <=> TrieMatching = {}
        /\ tResp.code = StatusMethodNotAllowed <=>
               (TrieMatching # {} /\ tReq.method \notin TrieMatchingMethods)
        /\ tResp.code = StatusMethodNotAllowed =>
               /\ IsSortedJoin(tResp.allow, TrieMatchingMethods)
               /\ tResp.handler = "none"
        /\ tResp.code = StatusNotFound => tResp.handler = "none"

\* "/a" is registered for GET and "/:a" for put; HEAD /a got 405 with
\* "Allow: GET, PUT".
C23_Witness ==
    /\ tStage = "served"
    /\ Len(tLog) = 2
    /\ tLog[1].pattern # tLog[2].pattern
    /\ tReq.method = <<72, 69, 65, 68>>
    /\ tResp.code = StatusMethodNotAllowed
    /\ tResp.allow = <<71, 69, 84, 44, 32, 80, 85, 84>>
    /\ tResp.handler = "none"

(***************************************************************************)
(* The claim about the totality of compilation (specification SpecCharset).*)
(***************************************************************************)
\* C24: compileMatcher returns, for every pattern, a matcher or one of the
\* eleven compile errors as a value; no pattern makes it panic.
C24_CompilationTotal ==
    mStage \in {"compiled", "error"} =>
        \/ mStage = "compiled" /\ mMatcher.err = "nil"
        \/ mStage = "error" /\ mMatcher.err \in CompileErrors

(***************************************************************************)
(* The claims about the matcher's single forward pass (specification       *)
(* SpecMatch).                                                             *)
(***************************************************************************)
IsParameterFragment(f) == f.t \in {exclusiveFragment, inclusiveFragment}

\* The parameter f may capture the rune r.
MayCapture(f, r) ==
    IF f.t = exclusiveFragment THEN r \notin RuneSet(f.r)
    ELSE r \in Covered(f.r)

\* The matcher is at a parameter and goes on to the next fragment.
ParameterStep ==
    /\ mStage = "matching"
    /\ mK <= Len(mMatcher.fs)
    /\ IsParameterFragment(mMatcher.fs[mK])
    /\ mStage' = "matching"

\* The value a parameter step has captured.
Captured == mBuf'[Len(mBuf')]

PatGreedy == <<SLASH, LBRACE, CHa, RBRACE, HYPHEN, CHb>>         \* "/{a}-b"

\* C25: matching is one forward pass: a parameter captures the longest
\* prefix of what is left of the path that holds none of its excluded runes
\* (lies inside its charset), the next fragment starts right after it, and a
\* fragment that fails ends the match; no parameter's value holds a '/' or a
\* rune of its exclusion set; "/{a}-b" does not match "/a-a-b" and "/{a}"
\* does not match "/a/a".
C25_GreedyNoBacktracking ==
    /\ [][ParameterStep =>
              /\ Len(mBuf') = Len(mBuf) + 2
              /\ SubSeq(mBuf', 1, Len(mBuf)) = mBuf
              /\ IsPrefix(Captured, mRest)
              /\ \A j \in 1..Len(Captured) :
                     MayCapture(mMatcher.fs[mK], Captured[j])
              /\ Len(Captured) < Len(mRest) =>
                     ~MayCapture(mMatcher.fs[mK], mRest[Len(Captured) + 1])
              /\ mRest' = SliceFrom(mRest, Len(Captured))
              /\ mK' = mK + 1]_vars
    /\ [][mStage = "matching" =>
              \/ mStage' = "matching" /\ mK' = mK + 1 /\ mK <= Len(mMatcher.fs)
              \/ mStage' = "failed"
              \/ mStage' = "matched" /\ mK > Len(mMatcher.fs)]_vars
    /\ [](mStage = "matched" =>
              LET cf == CapturingFragments(mMatcher.fs) IN
              \A j \in 1..Len(cf) :
                  IsParameterFragment(cf[j]) =>
                      /\ SLASH \notin RuneSet(mBuf[2 * j])
                      /\ cf[j].t = exclusiveFragment =>
                             RuneSet(mBuf[2 * j]) \cap RuneSet(cf[j].r) = {})
    /\ []((mPattern = PatGreedy
              /\ mPath = <<SLASH, CHa, HYPHEN, CHa, HYPHEN, CHb>>) =>
                 mStage # "matched")
    /\ []((mPattern = <<SLASH, LBRACE, CHa, RBRACE>>
              /\ mPath = <<SLASH, CHa, SLASH, CHa>>) =>
                 mStage # "matched")

\* "/{a}-b" took "a" from "/a-a-b" and failed on what was left, "-a-b".
C25_Witness ==
    /\ mStage = "failed"
    /\ mPattern = PatGreedy
    /\ mPath = <<SLASH, CHa, HYPHEN, CHa, HYPHEN, CHb>>
    /\ mK = 3
    /\ mRest = <<HYPHEN, CHa, HYPHEN, CHb>>

\* The name a capturing fragment records its value under.
CaptureName(f) == IF f.t = wildcardFragment THEN <<STAR>> ELSE f.s

\* The literal texts of the fragments from the k-th on and the values of
\* buf from the j-th pair on, in the order of the fragments.
RECURSIVE Rebuild(_, _, _, _)
Rebuild(fs, k, buf, j) ==
    IF k > Len(fs) THEN <<>>
    ELSE IF fs[k].t = literalFragment
         THEN fs[k].s \o Rebuild(fs, k + 1, buf, j)
         ELSE buf[2 * j] \o Rebuild(fs, k + 1, buf, j + 1)

\* C26: a successful match returns one name/value pair for each fragment
\* that is not literal, in the order of the fragments, a name that occurs
\* twice giving two pairs, and the literal texts and the values put together
\* in that order are the path; a failed match returns no captures.
C26_CapturesRebuildPath ==
    /\ mStage = "matched" =>
           LET cf == CapturingFragments(mMatcher.fs) IN
           /\ Len(mBuf) = 2 * Len(cf)
           /\ \A j \in 1..Len(cf) : mBuf[2 * j - 1] = CaptureName(cf[j])
           /\ Rebuild(mMatcher.fs, 1, mBuf, 1) = mPath
    /\ mStage = "failed" => mBuf = <<>>

\* "/{a}-{a}" has matched "/a-a" with the pairs (a, "a"), (a, "a").
C26_Witness ==
    /\ mStage = "matched"
    /\ mPattern = PatTwice
    /\ mPath = <<SLASH, CHa, HYPHEN, CHa>>
    /\ mBuf = << <<CHa>>, <<CHa>>, <<CHa>>, <<CHa>> >>

(***************************************************************************)
(* The claims about the dispatch queue (specification Spec).               *)
(***************************************************************************)
\* The handlers of the routes from the i-th on that match the request, route
\* by route.
RECURSIVE HandlersFrom(_, _, _)
HandlersFrom(rs, i, req) ==
    IF i > Len(rs) THEN <<>>
    ELSE (IF Matches(rs[i], req) THEN rs[i].handlers ELSE <<>>)
             \o HandlersFrom(rs, i + 1, req)

\* The handlers invoked for the request, in the order of their invocation.
Invoked == [c \in 1..Len(calls) |-> calls[c].h]

\* C27: when every handler invoked has called Next exactly once, the handlers
\* invoked are all the handlers of all the routes that match the request,
\* route by route in registration order and in list order within a route,
\* and the 404 response was written once; it is written only when no
\* handler and no route is left in the queue.
C27_AllHandlersThenNotFound ==
    /\ (pc = "returned" /\ \A c \in 1..Len(calls) : calls[c].nexts = 1) =>
           /\ Invoked = HandlersFrom(routes, 1, hr)
           /\ w = [status |-> StatusNotFound, body |-> <<NotFoundBody>>]
    /\ w # NoResponse => (queue.handlers = <<>> /\ queue.routes = <<>>)

\* Two matching routes of two handlers each: the four handlers have run,
\* each calling Next once, and the 404 was written.
C27_Witness ==
    /\ pc = "returned"
    /\ MatchingRoutes(routes, hr) = {1, 2}
    /\ Len(calls) = 4
    /\ \A c \in 1..Len(calls) : calls[c].nexts = 1
    /\ Invoked = routes[1].handlers \o routes[2].handlers
    /\ w.status = StatusNotFound

IsSuffix(s, t) ==
    Len(s) <= Len(t) /\ SubSeq(t, Len(t) - Len(s) + 1, Len(t)) = s

\* Handler position a comes before handler position b: an earlier route, or
\* the same route and an earlier handler.
PositionBefore(a, b) == a[1] < b[1] \/ (a[1] = b[1] /\ a[2] < b[2])

\* The positions of the handlers invoked ascend, the remaining routes are a
\* suffix of the table and the remaining handlers a suffix of the chain of
\* the route of the handler invoked last.
QueueWalksForward ==
    /\ \A c, d \in 1..Len(calls) :
           c < d => PositionBefore(calls[c].h.id, calls[d].h.id)
    /\ IsSuffix(queue.routes, routes)
    /\ Len(calls) > 0 =>
           /\ IsSuffix(queue.handlers,
                       routes[calls[Len(calls)].h.id[1]].handlers)
           /\ Len(queue.routes) <= Len(routes) - calls[Len(calls)].h.id[1]

\* C28 as stated: within a request no handler position is invoked twice and
\* no route is tested twice; the remaining routes are a suffix of the table,
\* the remaining handlers a suffix of the current route's chain, and both
\* only shrink.
C28_BothOnlyShrink ==
    /\ []QueueWalksForward
    /\ [][pc = "serving" =>
              /\ IsSuffix(queue.routes', queue.routes)
              /\ IsSuffix(queue.handlers', queue.handlers)]_vars

\* C28, amended: the same, but the remaining handlers shrink only while the
\* route stays the same: a step takes the first of the remaining handlers,
\* or, when none remains, takes routes off the front of the remaining routes
\* and sets the remaining handlers to the chain of the route adopted less
\* its first handler (to nothing when no route is adopted).
C28_QueueOnlyAdvances ==
    /\ []QueueWalksForward
    /\ [][pc = "serving" =>
              \/ queue' = queue
              \/ /\ queue.handlers # <<>>
                 /\ queue.handlers' = Tail(queue.handlers)
                 /\ queue.routes' = queue.routes
              \/ /\ queue.handlers = <<>>
                 /\ queue.routes # <<>>
                 /\ IsSuffix(queue.routes', queue.routes)
                 /\ Len(queue.routes') < Len(queue.routes)
                 /\ \/ queue.handlers' = <<>> /\ Len(calls') = Len(calls)
                    \/ /\ Len(calls') = Len(calls) + 1
                       /\ queue.handlers' =
                              Tail(routes[Len(routes) - Len(queue.routes')]
                                       .handlers)]_vars

\* The second route was adopted by a call of Next after the two handlers of
\* the first had run: one handler is left in the queue where none was.
C28_Witness ==
    /\ pc = "serving"
    /\ Len(calls) = 3
    /\ calls[2].h.id = <<1, 2>>
    /\ calls[3].h.id = <<2, 1>>
    /\ Len(queue.handlers) = 1
    /\ queue.routes = <<>>

(***************************************************************************)
(* The claim about termination (specification SpecLive).                   *)
(***************************************************************************)
RECURSIVE TotalHandlers(_, _)
TotalHandlers(rs, i) ==
    IF i > Len(rs) THEN 0 ELSE Len(rs[i].handlers) + TotalHandlers(rs, i + 1)

\* C29: when every handler returns, having called Next finitely often, the
\* dispatch of a request returns, and it invokes at most as many handlers
\* as the table holds.
C29_DispatchTerminates ==
    /\ (pc = "serving") ~> (pc = "returned")
    /\ [](Len(calls) <= TotalHandlers(routes, 1))

\* A request has returned after three calls of Next with the two handlers
\* of the table invoked once each.
C29_Witness ==
    /\ pc = "returned"
    /\ TotalHandlers(routes, 1) = 2
    /\ Len(calls) = 2
    /\ NextCalls(calls) = 3

(***************************************************************************)
(* The claim about the route table (specification Spec).                   *)
(***************************************************************************)
\* A step of the dispatch of a request: its start, a call of Next or the
\* return of a handler.
DispatchStep ==
    \/ \E method \in RequestMethods, path \in MuxPaths : ServeHTTP(method, path)
    \/ Next_
    \/ Return

\* C30: a registration that succeeds appends one route, for the method,
\* pattern and handlers given, at the end of the table and leaves the routes
\* before it as they were, one that fails leaves the table as it was, and no
\* step of a dispatch changes the table.
C30_TableChangesByAppend ==
    [][/\ \A method \in Methods, pat \in MuxPatterns, handlers \in HandlerLists :
              Register(method, pat, handlers) =>
                  IF fatal' = "nil"
                  THEN /\ Len(routes') = Len(routes) + 1
                       /\ SubSeq(routes', 1, Len(routes)) = routes
                       /\ routes'[Len(routes')].method = method
                       /\ routes'[Len(routes')].matcher = compileMatcher(pat).fs
                       /\ Len(routes'[Len(routes')].handlers) = Len(handlers)
                  ELSE routes' = routes
       /\ DispatchStep => routes' = routes]_vars

\* Two routes were registered, "/a" before "/*", and a request served by
\* both has returned with the table as the registrations left it.
C30_Witness ==
    /\ pc = "returned"
    /\ Len(routes) = 2
    /\ routes[1].matcher = compileMatcher(PatA).fs
    /\ routes[1].handlers[1].id = <<1, 1>>
    /\ routes[2].matcher = compileMatcher(PatWild).fs
    /\ routes[2].handlers[1].id = <<2, 1>>
    /\ Len(calls) >= 2
    /\ calls[Len(calls)].h.id[1] = 2

(***************************************************************************)
(* The claim about requests dispatched side by side (specification         *)
(* SpecConc).                                                              *)
(***************************************************************************)
\* The request dispatched alone, up to its n-th serveNext: the queue, the
\* handlers invoked with their parameters, and the response.
RECURSIVE SoloRun(_, _, _, _, _)
SoloRun(q, req, n, cs, rw) ==
    IF n = 0 THEN [q |-> q, calls |-> cs, w |-> rw]
    ELSE LET s == serveNext(q, req)
         IN  SoloRun(s.q, req, n - 1, cs \o s.invoke,
                     IF s.notFound
                     THEN httpError(rw, NotFoundBody, StatusNotFound)
                     ELSE rw)

\* The handlers invoked for request i with the parameters handed to them.
InvokedOf(i) ==
    [c \in 1..Len(xReqs[i].calls) |->
        [h |-> xReqs[i].calls[c].h, params |-> xReqs[i].calls[c].params]]

\* C31: requests dispatched side by side over one table do not interfere:
\* whatever the order of their steps, each request has a queue of its own,
\* and the handlers invoked for it, the parameters they get, its response
\* and its queue are those of the request dispatched alone with the same
\* calls of Next.
C31_NoInterference ==
    /\ \A i \in ReqIds :
           xReqs[i].pc # "idle" =>
               LET solo == SoloRun(NewQueue(routes), xReqs[i].hr,
                                   1 + NextCalls(xReqs[i].calls), <<>>,
                                   NoResponse)
               IN  /\ InvokedOf(i) = solo.calls
                   /\ xReqs[i].w = solo.w
                   /\ xQueues[xReqs[i].q] = solo.q
    /\ \A i, j \in ReqIds :
           (i # j /\ xReqs[i].pc # "idle" /\ xReqs[j].pc # "idle") =>
               xReqs[i].q # xReqs[j].q

\* Two requests for different paths are both being served, each with a
\* handler that has called Next, with different captures.
C31_Witness ==
    /\ xReqs[1].pc = "serving"
    /\ xReqs[2].pc = "serving"
    /\ xReqs[1].hr.path # xReqs[2].hr.path
    /\ NextCalls(xReqs[1].calls) >= 1
    /\ NextCalls(xReqs[2].calls) >= 1
    /\ Len(xReqs[1].calls) >= 2
    /\ Len(xReqs[2].calls) >= 2
    /\ xReqs[1].calls[1].params # xReqs[2].calls[1].params

(***************************************************************************)
(* The claim about the runes of a charset (specification SpecSimplify).    *)
(***************************************************************************)
\* The runes of the inputs, and one on either side of them.
ProbeRunes == (CHa - 1)..(CHa + MaxRunes)

\* C32: simplifyCharset keeps the runes of the charset: a rune lies in a
\* pair of the result exactly when it lies in a pair of the input, as the
\* inclusion parameter tests it.
C32_SimplifyKeepsRunes ==
    cStage = "done" =>
        \A r \in ProbeRunes : InCharset(r, cOut) <=> InCharset(r, cIn)

\* b-d, a-b has been simplified to a-d.
C32_Witness ==
    /\ cStage = "done"
    /\ cIn = <<CHb, CHa + 3, CHa, CHb>>
    /\ cOut = <<CHa, CHa + 3>>
    /\ InCharset(CHa + 2, cOut)

(***************************************************************************)
(* The claim about parameter names (specification SpecPattern).            *)
(***************************************************************************)
\* C33: every parameter fragment of a compiled pattern, by either compiler,
\* has a name that is not empty; "{}" and "{[a]}" do not compile.
C33_ParameterNamed ==
    /\ (mStage \in {"compiled", "pattern"} /\ mMatcher.err = "nil") =>
           \A k \in 1..Len(mMatcher.fs) :
               mMatcher.fs[k].t \in {exclusiveFragment, inclusiveFragment} =>
                   mMatcher.fs[k].s # <<>>
    /\ mPattern \in {<<LBRACE, RBRACE>>,
                      <<LBRACE, LBRACK, CHa, RBRACK, RBRACE>>} =>
           (mStage \in {"compiled", "pattern"} => mMatcher.err # "nil")

====
